---- MODULE Spec2Model ----
(***************************************************************************)
(* A model of monfari, a personal ledger: value types and the transaction  *)
(* delta function (types.rs), the local versioned-file store with its lock *)
(* file and its git working tree, index and HEAD (repository/local.rs),    *)
(* and the relational store (repository/sql.rs).                           *)
(***************************************************************************)
EXTENDS Integers, Sequences, FiniteSets, TLC

VARIABLES
    path_exists,   \* the store directory exists
    git_dir,       \* `git init` has run in it
    wt,            \* working tree: [scaffold, accounts, transactions]
    index,         \* git index (staged files), same shape
    head,          \* tree of HEAD, same shape, with `born` (a commit exists)
    lock,          \* content of the file monfari-repo-lock: 0 = no file, else a pid
    pc,            \* per process: where it is in init/open, or "open", "crashed"
    accounts,      \* per process: LocalRepository.accounts, the in-memory index
    cmd,           \* the command handed to the last run_command call
    result,        \* per process: outcome of its last call
    ncmds,         \* number of run_command calls made so far
    all_ok,        \* every run_command call so far returned Ok
    db,            \* relational store: [accounts, transactions, commands]
    foreign_keys,  \* whether the SQLite build enforces REFERENCES
    tx_in,         \* argument of Transaction::results under ResultsSpec
    tx_out,        \* its return value (<<>> before the call)
    session,       \* one stream-protocol connection: both byte streams, the
                   \* server's position in run_session, the client's cache
    http,          \* the HTTP server: who holds the Mutex<Repository>, and
                   \* each request task's position, request and reply
    listener       \* the TcpListener of serve_listener: connections waiting
                   \* to be accepted, and what each client has seen

localVars == <<path_exists, git_dir, wt, index, head, lock, pc, accounts>>
callVars == <<cmd, result, ncmds, all_ok>>
sqlVars == <<db, foreign_keys>>
pureVars == <<tx_in, tx_out>>
netVars == <<session, http, listener>>
vars == <<localVars, callVars, sqlVars, pureVars, netVars>>

----------------------------------------------------------------------------
(* Bounds and input sets *)

MaxCmds == 3

Procs == {1, 2}
AccountIds == {1, 2, 3}
Currencies == {"EUR", "USD"}
AccountTypes == {"Physical", "Virtual"}
DefaultName == "Default Virtual Account"
DefaultNotes == "A virtual account is required to do much"

----------------------------------------------------------------------------
(* types.rs: Amount, Amounts *)

\* Rust's integer division truncates towards zero; % takes the dividend's sign
TruncDiv(a, b) == IF a >= 0 THEN a \div b ELSE -((-a) \div b)
TruncRem(a, b) == a - b * TruncDiv(a, b)

\* Amount(i32, Currency) is the pair <<minor units, currency>>
Neg(amount) == <<-amount[1], amount[2]>>

\* the characters of the decimal digits
Digits == <<"0", "1", "2", "3", "4", "5", "6", "7", "8", "9">>
is_ascii_digit(c) == \E d \in 1..10 : Digits[d] = c
DigitValue(c) == (CHOOSE d \in 1..10 : Digits[d] = c) - 1

\* the decimal text of n in 0..99, without padding
Decimal(n) == IF n < 10 THEN <<Digits[n + 1]>> ELSE <<Digits[(n \div 10) + 1], Digits[(n % 10) + 1]>>

\* format!("{:02}", n) for n in -99..99: zero-padded to a width of two, the
\* sign of a negative number counting towards the width
fmt_02(n) ==
    IF n >= 0
    THEN (IF n < 10 THEN <<"0">> ELSE <<>>) \o Decimal(n)
    ELSE <<"-">> \o Decimal(-n)

\* impl Display for Amount: the text "W[.FF] CCC" as its printed fields; whole
\* is the number printed before the point, frac is <<>> when no point is
\* printed, else <<the characters after the point>>
Amount_fmt(amount) ==
    [whole |-> TruncDiv(amount[1], 100),
     frac |-> IF TruncRem(amount[1], 100) # 0
              THEN <<fmt_02(TruncRem(amount[1], 100))>> ELSE <<>>,
     cur |-> amount[2]]

\* Amount::parse_num on the text before the space; [ok, value]
parse_num(s) ==
    IF s.frac = <<>>
    THEN [ok |-> TRUE, value |-> s.whole * 100]
    ELSE LET cents == s.frac[1]
         IN IF Len(cents) # 2 \/ \E k \in 1..Len(cents) : ~is_ascii_digit(cents[k])
            THEN [ok |-> FALSE, value |-> 0]
            ELSE [ok |-> TRUE,
                  value |-> s.whole * 100 + 10 * DigitValue(cents[1]) + DigitValue(cents[2])]

\* impl FromStr for Amount; [ok, value]
Amount_from_str(s) ==
    IF parse_num(s).ok
    THEN [ok |-> TRUE, value |-> <<parse_num(s).value, s.cur>>]
    ELSE [ok |-> FALSE, value |-> <<0, s.cur>>]

\* Amounts(BTreeMap<Currency, Amount>) is a function from the currencies present
NoAmounts == <<>>

\* impl AddAssign<Amount> for Amounts
add_assign(amounts, amount) ==
    LET present == IF amount[2] \in DOMAIN amounts
                   THEN amounts
                   ELSE amounts @@ (amount[2] :> <<0, amount[2]>>)
    IN [present EXCEPT ![amount[2]] = <<@[1] + amount[1], @[2]>>]

RECURSIVE add_all(_, _)
\* `for amount in amounts { acc.current += amount }` and impl Sum<Amount>
add_all(amounts, seq) ==
    IF seq = <<>> THEN amounts
    ELSE add_all(add_assign(amounts, Head(seq)), Tail(seq))

----------------------------------------------------------------------------
(* types.rs: Transaction *)

\* results, had a move between physical accounts cost the receiver a fee
\* results that leave out the Virtual side of a Received
results_one_axis(t) ==
    CASE t.inner.type = "Received" -> << <<t.inner.dst, t.amount>> >>
      [] t.inner.type = "Paid" ->
            << <<t.inner.src, Neg(t.amount)>>, <<t.inner.src_virt, Neg(t.amount)>> >>
      [] t.inner.type \in {"MovePhys", "MoveVirt"} ->
            << <<t.inner.src, Neg(t.amount)>>, <<t.inner.dst, t.amount>> >>
      [] t.inner.type = "Convert" ->
            << <<t.inner.acc, Neg(t.amount)>>, <<t.inner.acc, t.inner.new_amount>>,
               <<t.inner.acc_virt, Neg(t.amount)>>,
               <<t.inner.acc_virt, t.inner.new_amount>> >>

results_fees(t) ==
    CASE t.inner.type = "Received" ->
            << <<t.inner.dst, t.amount>>, <<t.inner.dst_virt, t.amount>> >>
      [] t.inner.type = "Paid" ->
            << <<t.inner.src, Neg(t.amount)>>, <<t.inner.src_virt, Neg(t.amount)>> >>
      [] t.inner.type = "MovePhys" ->
            << <<t.inner.src, Neg(t.amount)>>,
               <<t.inner.dst, <<t.amount[1] - 1, t.amount[2]>> >> >>
      [] t.inner.type = "MoveVirt" ->
            << <<t.inner.src, Neg(t.amount)>>, <<t.inner.dst, t.amount>> >>
      [] t.inner.type = "Convert" ->
            << <<t.inner.acc, Neg(t.amount)>>, <<t.inner.acc, t.inner.new_amount>>,
               <<t.inner.acc_virt, Neg(t.amount)>>,
               <<t.inner.acc_virt, t.inner.new_amount>> >>

\* Transaction::results: the sequence of <<account id, amount>>
results(t) ==
    CASE t.inner.type = "Received" ->
            << <<t.inner.dst, t.amount>>, <<t.inner.dst_virt, t.amount>> >>
      [] t.inner.type = "Paid" ->
            << <<t.inner.src, Neg(t.amount)>>, <<t.inner.src_virt, Neg(t.amount)>> >>
      [] t.inner.type = "MovePhys" ->
            << <<t.inner.src, Neg(t.amount)>>, <<t.inner.dst, t.amount>> >>
      [] t.inner.type = "MoveVirt" ->
            << <<t.inner.src, Neg(t.amount)>>, <<t.inner.dst, t.amount>> >>
      [] t.inner.type = "Convert" ->
            << <<t.inner.acc, Neg(t.amount)>>, <<t.inner.acc, t.inner.new_amount>>,
               <<t.inner.acc_virt, Neg(t.amount)>>,
               <<t.inner.acc_virt, t.inner.new_amount>> >>

\* Transaction::accounts: the two participant slots
Transaction_accounts(t) ==
    CASE t.inner.type = "Received" -> <<t.inner.dst, t.inner.dst_virt>>
      [] t.inner.type = "Paid" -> <<t.inner.src, t.inner.src_virt>>
      [] t.inner.type = "MovePhys" -> <<t.inner.src, t.inner.dst>>
      [] t.inner.type = "MoveVirt" -> <<t.inner.src, t.inner.dst>>
      [] t.inner.type = "Convert" -> <<t.inner.acc, t.inner.acc_virt>>

----------------------------------------------------------------------------
(* Serialisation: toml::to_string_pretty / toml::from_str, serde_json.      *)
(* Amounts are written with Display and read back with FromStr.             *)

Amounts_ser(amounts) == [c \in DOMAIN amounts |-> Amount_fmt(amounts[c])]
Amounts_ok(text) == \A c \in DOMAIN text : Amount_from_str(text[c]).ok
Amounts_de(text) == [c \in DOMAIN text |-> Amount_from_str(text[c]).value]

Account_ser(a) == [a EXCEPT !.current = Amounts_ser(@)]
Account_de_ok(f) == Amounts_ok(f.current)
Account_de(f) == [f EXCEPT !.current = Amounts_de(@)]

Transaction_ser(t) ==
    IF t.inner.type = "Convert"
    THEN [t EXCEPT !.amount = Amount_fmt(@), !.inner.new_amount = Amount_fmt(@)]
    ELSE [t EXCEPT !.amount = Amount_fmt(@)]
Transaction_de_ok(f) ==
    /\ Amount_from_str(f.amount).ok
    /\ f.inner.type = "Convert" => Amount_from_str(f.inner.new_amount).ok
Transaction_de(f) ==
    IF f.inner.type = "Convert"
    THEN [f EXCEPT !.amount = Amount_from_str(@).value,
                   !.inner.new_amount = Amount_from_str(@).value]
    ELSE [f EXCEPT !.amount = Amount_from_str(@).value]

----------------------------------------------------------------------------
(* git, as local.rs uses it.  A tree is [scaffold, accounts, transactions]: *)
(* scaffold stands for .gitignore and the two .gitkeep files, the other two *)
(* map an id to the content of <id>.toml.                                   *)

EmptyTree == [scaffold |-> FALSE, accounts |-> <<>>, transactions |-> <<>>]

Put(f, k, v) == (k :> v) @@ f

\* `git add <path>` of one entity file
git_add(st, coll, id) ==
    IF coll = "accounts"
    THEN [st EXCEPT !.index.accounts = Put(@, id, st.wt.accounts[id])]
    ELSE [st EXCEPT !.index.transactions = Put(@, id, st.wt.transactions[id])]

\* `git commit -m <message>` exits non-zero when the index equals HEAD's tree
git_commit_ok(st) == st.index # st.head.tree
\* a commit that records nothing
git_commit_skipped(st) == st

git_commit(st) == [st EXCEPT !.head = [born |-> TRUE, tree |-> st.index]]

\* paths git knows: in the index or in HEAD's tree
Tracked(st, coll) == DOMAIN st.index[coll] \cup DOMAIN st.head.tree[coll]

FileClean(st, coll, id) ==
    /\ id \in DOMAIN st.wt[coll]
    /\ id \in DOMAIN st.index[coll]
    /\ id \in DOMAIN st.head.tree[coll]
    /\ st.wt[coll][id] = st.head.tree[coll][id]
    /\ st.index[coll][id] = st.head.tree[coll][id]

\* `git diff-index --quiet HEAD` exits zero: HEAD exists and no tracked path
\* differs from it; files git does not track are not looked at
diff_index_quiet(st) ==
    /\ st.head.born
    /\ st.wt.scaffold = st.head.tree.scaffold
    /\ st.index.scaffold = st.head.tree.scaffold
    /\ \A coll \in {"accounts", "transactions"} :
          \A id \in Tracked(st, coll) : FileClean(st, coll, id)

----------------------------------------------------------------------------
(* repository/local.rs: LocalRepository.  A handler is modelled by the      *)
(* sequence of file-system, git and memory operations it performs, in code  *)
(* order, so that a crash can stop it after any prefix.  `st` is            *)
(* [accounts, wt, index, head] with accounts the caller's in-memory index.  *)

\* fs::write(path_for(id), toml) of an entity file
fs_write(st, coll, id, content) ==
    IF coll = "accounts"
    THEN [st EXCEPT !.wt.accounts = Put(@, id, content)]
    ELSE [st EXCEPT !.wt.transactions = Put(@, id, content)]

\* one operation of a handler
Exec(st, op) ==
    CASE op[1] = "fs_write" -> fs_write(st, op[2], op[3], op[4])
      [] op[1] = "git_add" -> git_add(st, op[2], op[3])
      [] op[1] = "mem_put" -> [st EXCEPT !.accounts = Put(@, op[2], op[3])]

RECURSIVE ExecAll(_, _)
ExecAll(st, ops) ==
    IF ops = <<>> THEN st ELSE ExecAll(Exec(st, Head(ops)), Tail(ops))

\* LocalRepository::create: write the file, then stage it
create(coll, id, content) ==
    << <<"fs_write", coll, id, content>>, <<"git_add", coll, id>> >>

\* the closure LocalRepository::modify returns: store the new value in the
\* in-memory index, write its file, stage it
modify_exec(value) ==
    << <<"mem_put", value.id, value>>,
       <<"fs_write", "accounts", value.id, Account_ser(value)>>,
       <<"git_add", "accounts", value.id>> >>

RECURSIVE group_by(_)
\* itertools group_by(|x| x.0): runs of consecutive entries with the same
\* account, as <<account, sequence of amounts>>
group_by(rs) ==
    IF rs = <<>> THEN <<>>
    ELSE LET rest == group_by(Tail(rs))
         IN IF rest # <<>> /\ rest[1][1] = Head(rs)[1]
            THEN << <<Head(rs)[1], <<Head(rs)[2]>> \o rest[1][2]>> >> \o Tail(rest)
            ELSE << <<Head(rs)[1], <<Head(rs)[2]>> >> >> \o rest

\* add_amounts without its ensure!
add_amounts_unchecked(acc, amounts) ==
    [err |-> "Ok", value |-> [acc EXCEPT !.current = add_all(@, amounts)]]

\* the closure add_transaction hands to modify: add the group's amounts, then
\* ensure!(no currency is below 0)
add_amounts(acc, amounts) ==
    LET value == [acc EXCEPT !.current = add_all(@, amounts)]
    IN IF \A c \in DOMAIN value.current : value.current[c][1] >= 0
       THEN [err |-> "Ok", value |-> value]
       ELSE [err |-> "NegativeBalance", value |-> acc]

RECURSIVE apply_changes_first(_, _)
\* apply_changes, had the first change of a kind been the one that stays
apply_changes_first(account, changes) ==
    IF changes = <<>> THEN account
    ELSE LET rest == apply_changes_first(account, Tail(changes))
         IN CASE Head(changes).kind = "Disable" -> [rest EXCEPT !.enabled = FALSE]
              [] Head(changes).kind = "UpdateName" ->
                    [rest EXCEPT !.name = Head(changes).name]
              [] Head(changes).kind = "UpdateNotes" ->
                    [rest EXCEPT !.notes = Head(changes).notes]

RECURSIVE apply_changes(_, _)
\* the closure of modify_account: the changes in list order
apply_changes(account, changes) ==
    IF changes = <<>> THEN account
    ELSE apply_changes(
            CASE Head(changes).kind = "Disable" -> [account EXCEPT !.enabled = FALSE]
              [] Head(changes).kind = "UpdateName" ->
                    [account EXCEPT !.name = Head(changes).name]
              [] Head(changes).kind = "UpdateNotes" ->
                    [account EXCEPT !.notes = Head(changes).notes],
            Tail(changes))

\* the call f(&mut value) in modify; f is one of the two closures the
\* callers pass, with what it captured
call_f(f, value) ==
    IF f.closure = "add_amounts" THEN add_amounts(value, f.amounts)
    ELSE [err |-> "Ok", value |-> apply_changes(value, f.changes)]

\* modify, had it started from a default account when the id is unknown
modify_or_default(mem, id, f) ==
    LET r == call_f(f, IF id \in DOMAIN mem THEN mem[id]
                       ELSE [id |-> id, name |-> "", notes |-> "", typ |-> "Virtual",
                             current |-> NoAmounts, enabled |-> TRUE])
    IN IF r.err # "Ok" THEN [err |-> r.err, ops |-> <<>>]
       ELSE [err |-> "Ok", ops |-> modify_exec(r.value)]

\* LocalRepository::modify: look the account up in the in-memory index, apply
\* f to a clone; nothing is stored before the returned closure runs
modify(mem, id, f) ==
    IF id \notin DOMAIN mem
    THEN [err |-> "NoSuchAccount", ops |-> <<>>]
    ELSE LET r == call_f(f, mem[id])
         IN IF r.err # "Ok" THEN [err |-> r.err, ops |-> <<>>]
            ELSE [err |-> "Ok", ops |-> modify_exec(r.value)]

RECURSIVE collect_eager(_)
\* collect, had each modification been stored as soon as it was checked
collect_eager(rs) ==
    IF rs = <<>> THEN [err |-> "Ok", ops |-> <<>>]
    ELSE IF Head(rs).err # "Ok" THEN [err |-> Head(rs).err, ops |-> <<>>]
    ELSE LET rest == collect_eager(Tail(rs))
         IN [err |-> rest.err, ops |-> Head(rs).ops \o rest.ops]

RECURSIVE collect(_)
\* collect::<Result<Vec<_>>>(): the first error, else all closures in order
collect(rs) ==
    IF rs = <<>> THEN [err |-> "Ok", ops |-> <<>>]
    ELSE IF Head(rs).err # "Ok" THEN [err |-> Head(rs).err, ops |-> <<>>]
    ELSE LET rest == collect(Tail(rs))
         IN IF rest.err # "Ok" THEN rest
            ELSE [err |-> "Ok", ops |-> Head(rs).ops \o rest.ops]

\* LocalRepository::add_transaction
add_transaction(mem, transaction) ==
    LET groups == group_by(results(transaction))
        checked == collect([i \in 1..Len(groups) |->
                       modify(mem, groups[i][1],
                              [closure |-> "add_amounts", amounts |-> groups[i][2]])])
    IN [err |-> checked.err,
        ops |-> create("transactions", transaction.id, Transaction_ser(transaction))
                \o checked.ops]

\* LocalRepository::create_account: BTreeMap::insert stores the value and
\* returns the one it replaced
create_account(mem, account) ==
    [err |-> IF account.id \in DOMAIN mem THEN "DuplicateId" ELSE "Ok",
     ops |-> create("accounts", account.id, Account_ser(account))
             \o << <<"mem_put", account.id, account>> >>]

\* LocalRepository::modify_account
modify_account(mem, id, changes) ==
    modify(mem, id, [closure |-> "apply_changes", changes |-> changes])

\* the match of LocalRepository::run_command
handler(mem, c) ==
    CASE c.op = "CreateAccount" -> create_account(mem, c.account)
      [] c.op = "UpdateAccount" -> modify_account(mem, c.id, c.changes)
      [] c.op = "AddTransaction" -> add_transaction(mem, c.transaction)

\* LocalRepository::run_command: the handler, then `git commit`
run_command(st, c) ==
    LET h == handler(st.accounts, c)
        done == ExecAll(st, h.ops)
    IN IF h.err # "Ok" THEN [st |-> done, result |-> h.err]
       ELSE IF ~git_commit_ok(done) THEN [st |-> done, result |-> "CommitFailed"]
       ELSE [st |-> git_commit(done), result |-> "Ok"]

\* LocalRepository::accounts
accounts_list(mem) == mem

RECURSIVE list(_)
\* LocalRepository::list: the ids of the <id>.toml files of a collection, in
\* the order read_dir yields them, which no caller relies on; here descending
list(ids) ==
    IF ids = {} THEN <<>>
    ELSE LET m == CHOOSE x \in ids : \A y \in ids : y <= x
         IN <<m>> \o list(ids \ {m})

RECURSIVE insert_by_id(_, _)
insert_by_id(t, sorted) ==
    IF sorted = <<>> \/ t.id <= Head(sorted).id THEN <<t>> \o sorted
    ELSE <<Head(sorted)>> \o insert_by_id(t, Tail(sorted))

RECURSIVE sort_by_id(_)
\* sort_unstable_by_key(|t| t.id)
sort_by_id(seq) ==
    IF seq = <<>> THEN <<>> ELSE insert_by_id(Head(seq), sort_by_id(Tail(seq)))

\* LocalRepository::transactions: an error when a file of the collection does
\* not parse, else the stored transactions that name id, sorted by their id
transactions_ok(tree) ==
    \A t \in DOMAIN tree.transactions : Transaction_de_ok(tree.transactions[t])
transactions(tree, id) ==
    LET ids == list(DOMAIN tree.transactions)
        all == [i \in 1..Len(ids) |-> Transaction_de(tree.transactions[ids[i]])]
    IN sort_by_id(SelectSeq(all, LAMBDA t : \E k \in 1..2 :
                                              Transaction_accounts(t)[k] = id))

----------------------------------------------------------------------------
(* Inputs of the local store's commands *)

AmountValues == {<<100, "EUR">>, <<150, "EUR">>}
NewAmountValues == {<<90, "USD">>}

\* the account LocalRepository::init creates, with the id `generate` gave it
DefaultAccount(id) ==
    [id |-> id, name |-> DefaultName, notes |-> DefaultNotes, typ |-> "Virtual",
     current |-> NoAmounts, enabled |-> TRUE]

\* accounts handed to CreateAccount: a new id and the id init has used
NewAccounts ==
    {[id |-> i, name |-> "A", notes |-> "", typ |-> ty, current |-> NoAmounts,
      enabled |-> TRUE] : i \in {1, 2}, ty \in AccountTypes}

Changes ==
    {<<>>, <<[kind |-> "Disable"]>>,
     <<[kind |-> "UpdateName", name |-> "B"], [kind |-> "UpdateNotes", notes |-> "x"]>>,
     <<[kind |-> "UpdateName", name |-> "C"], [kind |-> "UpdateNotes", notes |-> "y"],
       [kind |-> "Disable"],
       [kind |-> "UpdateName", name |-> "B"], [kind |-> "UpdateNotes", notes |-> "x"]>>}

\* every shape over all participant pairs
AllInners ==
    {[type |-> "Received", src |-> "Employer", dst |-> a, dst_virt |-> b] :
        a \in AccountIds, b \in AccountIds}
    \cup {[type |-> "Paid", src |-> a, src_virt |-> b, dst |-> "Landlord"] :
        a \in AccountIds, b \in AccountIds}
    \cup {[type |-> "MovePhys", src |-> a, dst |-> b] : a \in AccountIds, b \in AccountIds}
    \cup {[type |-> "MoveVirt", src |-> a, dst |-> b] : a \in AccountIds, b \in AccountIds}
    \cup {[type |-> "Convert", acc |-> a, acc_virt |-> b, new_amount |-> n] :
        a \in AccountIds, b \in AccountIds, n \in NewAmountValues}

\* the pairs the store is driven with: account 1 exists from init, 2 once
\* created, 3 never; a pair may name one account twice or the wrong axis
Inners ==
    {inn \in AllInners :
        Transaction_accounts([inner |-> inn]) \in
            CASE inn.type = "Received" -> {<<2, 1>>, <<1, 1>>}
              [] inn.type = "Paid" -> {<<2, 1>>, <<1, 2>>, <<1, 3>>}
              [] inn.type = "MovePhys" -> {<<1, 2>>, <<2, 2>>}
              [] inn.type = "MoveVirt" -> {<<2, 1>>}
              [] inn.type = "Convert" -> {<<2, 1>>, <<1, 1>>}}

Transactions ==
    {[id |-> i, notes |-> "", amount |-> am, inner |-> inn] :
        i \in {1}, am \in AmountValues, inn \in Inners}

NoCmd == [op |-> "None"]

----------------------------------------------------------------------------
(* The local store driven by one process that holds it open *)

Tree0 == [scaffold |-> TRUE,
          accounts |-> (1 :> Account_ser(DefaultAccount(1))),
          transactions |-> <<>>]

\* the state LocalRepository::init leaves, its handle still held by process 1
LocalFresh ==
    /\ path_exists = TRUE
    /\ git_dir = TRUE
    /\ wt = Tree0
    /\ index = Tree0
    /\ head = [born |-> TRUE, tree |-> Tree0]
    /\ lock = 1
    /\ pc = [p \in Procs |-> IF p = 1 THEN "open" ELSE "none"]
    /\ accounts = [p \in Procs |-> IF p = 1 THEN (1 :> DefaultAccount(1)) ELSE <<>>]

\* no store directory yet
LocalNone ==
    /\ path_exists = FALSE
    /\ git_dir = FALSE
    /\ wt = EmptyTree
    /\ index = EmptyTree
    /\ head = [born |-> FALSE, tree |-> EmptyTree]
    /\ lock = 0
    /\ pc = [p \in Procs |-> "none"]
    /\ accounts = [p \in Procs |-> <<>>]

CallInit ==
    /\ cmd = NoCmd
    /\ result = [p \in Procs |-> "Ok"]
    /\ ncmds = 0
    /\ all_ok = TRUE

\* the database SqlRepository::open leaves after its migration
EmptyDb == [accounts |-> <<>>, transactions |-> <<>>, commands |-> <<>>]

SqlNone == db = EmptyDb /\ foreign_keys = FALSE
HttpNone == http = [mutex |-> 0]
ListenerNone == listener = [backlog |-> <<>>]
NetNone == session = [spc |-> "none"] /\ HttpNone /\ ListenerNone
PureNone == tx_in = NoCmd /\ tx_out = <<>>

Init == LocalFresh /\ CallInit /\ SqlNone /\ PureNone /\ NetNone

St(p) == [accounts |-> accounts[p], wt |-> wt, index |-> index, head |-> head]

\* one call of LocalRepository::run_command by the process holding the store
RunCommand(p, c) ==
    /\ pc[p] = "open"
    /\ ncmds < MaxCmds
    /\ \E r \in {run_command(St(p), c)} :
          /\ accounts' = [accounts EXCEPT ![p] = r.st.accounts]
          /\ wt' = r.st.wt
          /\ index' = r.st.index
          /\ head' = r.st.head
          /\ result' = [result EXCEPT ![p] = r.result]
          /\ all_ok' = (all_ok /\ r.result = "Ok")
    /\ cmd' = c
    /\ ncmds' = ncmds + 1
    /\ UNCHANGED <<path_exists, git_dir, lock, pc, sqlVars, pureVars, netVars>>

CreateAccount(p) ==
    \E a \in NewAccounts : RunCommand(p, [op |-> "CreateAccount", account |-> a])

UpdateAccount(p) ==
    \E id \in AccountIds, ch \in Changes :
        RunCommand(p, [op |-> "UpdateAccount", id |-> id, changes |-> ch])

AddTransaction(p) ==
    \E t \in Transactions : RunCommand(p, [op |-> "AddTransaction", transaction |-> t])

Next == CreateAccount(1) \/ UpdateAccount(1) \/ AddTransaction(1)

Spec == Init /\ [][Next]_vars

----------------------------------------------------------------------------
(* repository/local.rs: LockFile, LocalRepository::init and ::open *)

\* LockFile::acquire: File::options().create_new(true) fails when the file
\* exists, else the file is created and the pid written; [ok, lock]
acquire_overwrite(lockfile, pid) == [ok |-> TRUE, lock |-> pid]

\* a lock that a process takes again when the file holds its own pid
acquire_own_pid(lockfile, pid) ==
    IF lockfile # 0 /\ lockfile # pid THEN [ok |-> FALSE, lock |-> lockfile]
    ELSE [ok |-> TRUE, lock |-> pid]

acquire(lockfile, pid) ==
    IF lockfile # 0 THEN [ok |-> FALSE, lock |-> lockfile]
    ELSE [ok |-> TRUE, lock |-> pid]

\* impl Drop for LockFile: assert the file holds this pid, then remove it;
\* ok is FALSE when the assertion panics
drop_lock(lockfile, pid) ==
    IF lockfile = pid THEN [ok |-> TRUE, lock |-> 0]
    ELSE [ok |-> FALSE, lock |-> lockfile]

\* an init that does not look into the directory
dir_is_empty_unchecked(gd, tree, lockfile) == TRUE

\* path.read_dir()?.next().is_none()
dir_is_empty(gd, tree, lockfile) == ~gd /\ lockfile = 0 /\ tree = EmptyTree

\* the checks of LocalRepository::open before it takes the lock
open_checks(gd, st) ==
    IF ~gd THEN "NotInitialized"
    ELSE IF ~diff_index_quiet(st) THEN "Dirty"
    ELSE IF ~st.wt.scaffold THEN "NotInitialized"
    ELSE "Ok"

\* list::<Account>() and get() of LocalRepository::open: every <id>.toml of
\* the accounts directory, tracked by git or not; [ok, value]
load_accounts(tree) ==
    IF \A id \in DOMAIN tree.accounts : Account_de_ok(tree.accounts[id])
    THEN [ok |-> TRUE,
          value |-> [id \in DOMAIN tree.accounts |-> Account_de(tree.accounts[id])]]
    ELSE [ok |-> FALSE, value |-> <<>>]

----------------------------------------------------------------------------
(* repository/sql.rs: SqlRepository.  A table is the sequence of its rows in *)
(* rowid order; Amount columns hold the Display text.  None is <<>>, Some(v) *)
(* is <<v>>.                                                                 *)

RECURSIVE amounts_for(_, _)
\* AccountDb::to_account: results().filter(|(acc, _)| acc == &id).map(amount)
amounts_for(rs, id) ==
    IF rs = <<>> THEN <<>>
    ELSE (IF Head(rs)[1] = id THEN <<Head(rs)[2]>> ELSE <<>>) \o amounts_for(Tail(rs), id)

RECURSIVE fold_deltas(_, _, _)
\* the flat_map(...).sum() of AccountDb::to_account over a list of transactions
fold_deltas(amounts, txs, id) ==
    IF txs = <<>> THEN amounts
    ELSE fold_deltas(add_all(amounts, amounts_for(results(Head(txs)), id)), Tail(txs), id)

\* AccountDb::to_account
to_account(row, txs) ==
    [id |-> row.id, name |-> row.name, notes |-> row.notes, typ |-> row.typ,
     current |-> fold_deltas(NoAmounts, txs, row.id), enabled |-> row.enabled]

\* the TransactionDb row run_command builds from a Transaction
TransactionDb(t) ==
    [id |-> t.id, amount |-> Amount_fmt(t.amount), typ |-> t.inner.type,
     new_amount |-> IF t.inner.type = "Convert"
                    THEN <<Amount_fmt(t.inner.new_amount)>> ELSE <<>>,
     external_party |-> CASE t.inner.type = "Received" -> <<t.inner.src>>
                          [] t.inner.type = "Paid" -> <<t.inner.dst>>
                          [] OTHER -> <<>>,
     acc_1 |-> Transaction_accounts(t)[1],
     acc_2 |-> Transaction_accounts(t)[2],
     notes |-> t.notes]

\* FromSql of a row's Amount columns succeeds
row_ok(row) ==
    /\ Amount_from_str(row.amount).ok
    /\ row.new_amount # <<>> => Amount_from_str(row.new_amount[1]).ok

\* TransactionDb::to_transaction (its Options are always those the type needs)
to_transaction(row) ==
    [id |-> row.id, notes |-> row.notes, amount |-> Amount_from_str(row.amount).value,
     inner |-> CASE row.typ = "Received" ->
                      [type |-> "Received", src |-> row.external_party[1],
                       dst |-> row.acc_1, dst_virt |-> row.acc_2]
                 [] row.typ = "Paid" ->
                      [type |-> "Paid", src |-> row.acc_1, src_virt |-> row.acc_2,
                       dst |-> row.external_party[1]]
                 [] row.typ = "MovePhys" ->
                      [type |-> "MovePhys", src |-> row.acc_1, dst |-> row.acc_2]
                 [] row.typ = "MoveVirt" ->
                      [type |-> "MoveVirt", src |-> row.acc_1, dst |-> row.acc_2]
                 [] row.typ = "Convert" ->
                      [type |-> "Convert", acc |-> row.acc_1, acc_virt |-> row.acc_2,
                       new_amount |-> Amount_from_str(row.new_amount[1]).value]]

\* SELECT ... FROM transactions WHERE acc_1 = ?1 OR acc_2 = ?1
select_transactions(d, id) ==
    SelectSeq(d.transactions, LAMBDA row : row.acc_1 = id \/ row.acc_2 = id)

\* SqlRepository::transactions; [ok, value]
sql_transactions(d, id) ==
    LET rows == select_transactions(d, id)
    IN IF \A i \in 1..Len(rows) : row_ok(rows[i])
       THEN [ok |-> TRUE, value |-> [i \in 1..Len(rows) |-> to_transaction(rows[i])]]
       ELSE [ok |-> FALSE, value |-> <<>>]

\* SqlRepository::accounts; [ok, value]
sql_accounts(d) ==
    IF \A i \in 1..Len(d.accounts) : sql_transactions(d, d.accounts[i].id).ok
    THEN [ok |-> TRUE,
          value |-> [i \in 1..Len(d.accounts) |->
                        to_account(d.accounts[i],
                                   sql_transactions(d, d.accounts[i].id).value)]]
    ELSE [ok |-> FALSE, value |-> <<>>]

HasId(rows, id) == \E i \in 1..Len(rows) : rows[i].id = id

RECURSIVE set_columns(_, _)
\* UPDATE accounts SET <column = ?, ...>: of a column named twice the rightmost
\* assignment is the one SQLite applies
set_columns(row, changes) ==
    IF changes = <<>> THEN row
    ELSE set_columns(
            CASE Head(changes).kind = "Disable" -> [row EXCEPT !.enabled = FALSE]
              [] Head(changes).kind = "UpdateName" -> [row EXCEPT !.name = Head(changes).name]
              [] Head(changes).kind = "UpdateNotes" ->
                    [row EXCEPT !.notes = Head(changes).notes],
            Tail(changes))

\* the statements of SqlRepository::run_command inside its transaction: the
\* INSERT INTO commands, then the statement of the command's arm; [db, result]
\* with the tables as they are when the last statement returns
sql_execute(d, fk, c) ==
    LET logged == [d EXCEPT !.commands = Append(@, c)]
    IN CASE c.op = "CreateAccount" ->
              IF HasId(d.accounts, c.account.id)
              THEN [db |-> logged, result |-> "ConstraintFailed"]
              ELSE [db |-> [logged EXCEPT !.accounts =
                               Append(@, [id |-> c.account.id, typ |-> c.account.typ,
                                          name |-> c.account.name,
                                          notes |-> c.account.notes,
                                          enabled |-> c.account.enabled])],
                    result |-> "Ok"]
         [] c.op = "UpdateAccount" ->
              IF c.changes = <<>>
              THEN [db |-> logged, result |-> "SqlSyntaxError"]
              ELSE [db |-> [logged EXCEPT !.accounts =
                               [i \in 1..Len(d.accounts) |->
                                   IF d.accounts[i].id = c.id
                                   THEN set_columns(d.accounts[i], c.changes)
                                   ELSE d.accounts[i]]],
                    result |-> "Ok"]
         [] c.op = "AddTransaction" ->
              IF \/ HasId(d.transactions, c.transaction.id)
                 \/ fk /\ \E k \in 1..2 :
                        ~HasId(d.accounts, Transaction_accounts(c.transaction)[k])
              THEN [db |-> logged, result |-> "ConstraintFailed"]
              ELSE [db |-> [logged EXCEPT !.transactions =
                               Append(@, TransactionDb(c.transaction))],
                    result |-> "Ok"]

\* run_command, had its statements run outside a transaction
sql_run_command_autocommit(d, fk, c) == sql_execute(d, fk, c)

\* SqlRepository::run_command: one database transaction, committed at the end,
\* rolled back when the Transaction is dropped by a `?`; [db, result]
sql_run_command(d, fk, c) ==
    LET r == sql_execute(d, fk, c)
    IN IF r.result = "Ok" THEN r ELSE [db |-> d, result |-> r.result]

----------------------------------------------------------------------------
(* Processes that init, open and close the store, and crash *)

Call(op, p) == [op |-> op, proc |-> p]

\* LocalRepository::init up to its emptiness check
InitBegin(p) ==
    /\ pc[p] = "none"
    /\ cmd' = Call("Init", p)
    /\ IF path_exists /\ ~dir_is_empty(git_dir, wt, lock)
       THEN /\ result' = [result EXCEPT ![p] = "NotEmpty"]
            /\ UNCHANGED <<path_exists, pc>>
       ELSE /\ path_exists' = TRUE
            /\ pc' = [pc EXCEPT ![p] = "init_checked"]
            /\ UNCHANGED result
    /\ UNCHANGED <<git_dir, wt, index, head, lock, accounts, ncmds, all_ok,
                   sqlVars, pureVars, netVars>>

\* .gitignore, the two directories with .gitkeep, `git init`, `git add`
InitScaffold(p) ==
    /\ pc[p] = "init_checked"
    /\ cmd' = Call("Init", p)
    /\ wt' = [wt EXCEPT !.scaffold = TRUE]
    /\ git_dir' = TRUE
    /\ index' = [index EXCEPT !.scaffold = TRUE]
    /\ pc' = [pc EXCEPT ![p] = "init_scaffolded"]
    /\ UNCHANGED <<path_exists, head, lock, accounts, result, ncmds, all_ok,
                   sqlVars, pureVars, netVars>>

\* the rest of init: take the lock, create the default account under a fresh
\* id (the process's own number), commit; an error drops the handle
InitAcquire(p) ==
    /\ pc[p] = "init_scaffolded"
    /\ cmd' = Call("Init", p)
    /\ \E a \in {acquire(lock, p)} :
        IF ~a.ok
        THEN /\ result' = [result EXCEPT ![p] = "Locked"]
             /\ pc' = [pc EXCEPT ![p] = "none"]
             /\ UNCHANGED <<wt, index, head, lock, accounts>>
        ELSE \E r \in {run_command([accounts |-> <<>>, wt |-> wt, index |-> index,
                                    head |-> head],
                                   [op |-> "CreateAccount",
                                    account |-> DefaultAccount(p)])} :
                /\ wt' = r.st.wt
                /\ index' = r.st.index
                /\ head' = r.st.head
                /\ result' = [result EXCEPT ![p] = r.result]
                /\ IF r.result = "Ok"
                   THEN /\ lock' = a.lock
                        /\ pc' = [pc EXCEPT ![p] = "open"]
                        /\ accounts' = [accounts EXCEPT ![p] = r.st.accounts]
                   ELSE /\ lock' = drop_lock(a.lock, p).lock
                        /\ pc' = [pc EXCEPT ![p] = "none"]
                        /\ UNCHANGED accounts
    /\ UNCHANGED <<path_exists, git_dir, ncmds, all_ok, sqlVars, pureVars, netVars>>

\* LocalRepository::open up to its last check
OpenCheck(p) ==
    /\ pc[p] = "none"
    /\ cmd' = Call("Open", p)
    /\ \E r \in {open_checks(path_exists /\ git_dir, St(p))} :
          /\ result' = [result EXCEPT ![p] = r]
          /\ pc' = [pc EXCEPT ![p] = IF r = "Ok" THEN "open_checked" ELSE "none"]
    /\ UNCHANGED <<path_exists, git_dir, wt, index, head, lock, accounts, ncmds,
                   all_ok, sqlVars, pureVars, netVars>>

\* the rest of open: take the lock, load every account file; an error after
\* the lock was taken drops the handle and with it the lock
OpenAcquire(p) ==
    /\ pc[p] = "open_checked"
    /\ cmd' = Call("Open", p)
    /\ \E a \in {acquire(lock, p)} :
        IF ~a.ok
        THEN /\ result' = [result EXCEPT ![p] = "Locked"]
             /\ pc' = [pc EXCEPT ![p] = "none"]
             /\ UNCHANGED <<lock, accounts>>
        ELSE IF load_accounts(wt).ok
        THEN /\ lock' = a.lock
             /\ accounts' = [accounts EXCEPT ![p] = load_accounts(wt).value]
             /\ result' = [result EXCEPT ![p] = "Ok"]
             /\ pc' = [pc EXCEPT ![p] = "open"]
        ELSE /\ lock' = drop_lock(a.lock, p).lock
             /\ result' = [result EXCEPT ![p] = "ParseError"]
             /\ pc' = [pc EXCEPT ![p] = "none"]
             /\ UNCHANGED accounts
    /\ UNCHANGED <<path_exists, git_dir, wt, index, head, ncmds, all_ok,
                   sqlVars, pureVars, netVars>>

\* LockFile::acquire fails at write!(f, pid)?: create_new has made the file,
\* no LockFile value exists yet, so nothing removes it; the file stays, empty
\* (-1 stands for that content)
AcquireWriteFails(p) ==
    /\ pc[p] \in {"init_scaffolded", "open_checked"}
    /\ lock = 0
    /\ lock' = -1
    /\ cmd' = Call(IF pc[p] = "init_scaffolded" THEN "Init" ELSE "Open", p)
    /\ pc' = [pc EXCEPT ![p] = "none"]
    /\ result' = [result EXCEPT ![p] = "IoError"]
    /\ UNCHANGED <<path_exists, git_dir, wt, index, head, accounts, ncmds, all_ok,
                   sqlVars, pureVars, netVars>>

\* init takes the lock, writes and stages the default account, and its
\* `git commit` fails to run: `?` returns, `this` is dropped
InitCommitFails(p) ==
    /\ pc[p] = "init_scaffolded"
    /\ acquire(lock, p).ok
    /\ cmd' = Call("Init", p)
    /\ \E st \in {ExecAll([accounts |-> <<>>, wt |-> wt, index |-> index, head |-> head],
                           create_account(<<>>, DefaultAccount(p)).ops)} :
          /\ wt' = st.wt
          /\ index' = st.index
    /\ lock' = drop_lock(acquire(lock, p).lock, p).lock
    /\ pc' = [pc EXCEPT ![p] = "none"]
    /\ result' = [result EXCEPT ![p] = "IoError"]
    /\ UNCHANGED <<path_exists, git_dir, head, accounts, ncmds, all_ok,
                   sqlVars, pureVars, netVars>>

\* open takes the lock and read_dir or read_to_string of list/get fails:
\* `?` returns, `this` is dropped
OpenLoadFails(p) ==
    /\ pc[p] = "open_checked"
    /\ acquire(lock, p).ok
    /\ cmd' = Call("Open", p)
    /\ lock' = drop_lock(acquire(lock, p).lock, p).lock
    /\ pc' = [pc EXCEPT ![p] = "none"]
    /\ result' = [result EXCEPT ![p] = "IoError"]
    /\ UNCHANGED <<path_exists, git_dir, wt, index, head, accounts, ncmds, all_ok,
                   sqlVars, pureVars, netVars>>

\* the handle goes out of scope: Drop for LockFile
Close(p) ==
    /\ pc[p] = "open"
    /\ cmd' = Call("Close", p)
    /\ \E d \in {drop_lock(lock, p)} :
          /\ lock' = d.lock
          /\ pc' = [pc EXCEPT ![p] = IF d.ok THEN "none" ELSE "crashed"]
          /\ result' = [result EXCEPT ![p] = IF d.ok THEN "Ok" ELSE "Panic"]
    /\ accounts' = [accounts EXCEPT ![p] = <<>>]
    /\ UNCHANGED <<path_exists, git_dir, wt, index, head, ncmds, all_ok,
                   sqlVars, pureVars, netVars>>

\* the process dies inside run_command(c) after the first k operations of the
\* handler; nothing is dropped, so the lock file stays
CrashInCommand(p, c) ==
    /\ pc[p] = "open"
    /\ ncmds < MaxCmds
    /\ \E h \in {handler(accounts[p], c)} :
        \E k \in 1..Len(h.ops) :
            \E st \in {ExecAll(St(p), SubSeq(h.ops, 1, k))} :
                /\ wt' = st.wt
                /\ index' = st.index
                /\ head' = st.head
    /\ accounts' = [accounts EXCEPT ![p] = <<>>]
    /\ pc' = [pc EXCEPT ![p] = "crashed"]
    /\ result' = [result EXCEPT ![p] = "Crashed"]
    /\ cmd' = c
    /\ ncmds' = ncmds + 1
    /\ all_ok' = FALSE
    /\ UNCHANGED <<path_exists, git_dir, lock, sqlVars, pureVars, netVars>>

\* someone removes the lock file a dead process left
RemoveStaleLock ==
    /\ lock # 0
    /\ lock \in Procs => pc[lock] = "crashed"
    /\ lock' = 0
    /\ cmd' = Call("RemoveLock", lock)
    /\ UNCHANGED <<path_exists, git_dir, wt, index, head, pc, accounts, result,
                   ncmds, all_ok, sqlVars, pureVars, netVars>>

\* the program is started again
Restart(p) ==
    /\ pc[p] = "crashed"
    /\ pc' = [pc EXCEPT ![p] = "none"]
    /\ cmd' = Call("Restart", p)
    /\ UNCHANGED <<path_exists, git_dir, wt, index, head, lock, accounts, result,
                   ncmds, all_ok, sqlVars, pureVars, netVars>>

----------------------------------------------------------------------------
(* Properties of the local store under Spec *)

RECURSIVE SortedIds(_)
SortedIds(S) ==
    IF S = {} THEN <<>>
    ELSE LET m == CHOOSE x \in S : \A y \in S : x <= y
         IN <<m>> \o SortedIds(S \ {m})

\* the transactions in the transactions collection, in identifier order
StoredTransactions ==
    LET ids == SortedIds(DOMAIN wt.transactions)
    IN [i \in 1..Len(ids) |-> Transaction_de(wt.transactions[ids[i]])]

NonNegative(amounts) == \A c \in DOMAIN amounts : amounts[c][1] >= 0

IsCall == ncmds' = ncmds + 1

\* C1: after every run_command call, accepted or rejected, no account of the
\* in-memory index and no account file holds a negative amount in any currency
C1_NeverNegative ==
    /\ \A id \in DOMAIN accounts[1] : NonNegative(accounts[1][id].current)
    /\ \A id \in DOMAIN wt.accounts :
          /\ Account_de_ok(wt.accounts[id])
          /\ NonNegative(Account_de(wt.accounts[id]).current)

\* a transaction that would have gone below zero was refused while some account
\* holds money
C1_Witness ==
    /\ cmd.op = "AddTransaction"
    /\ result[1] = "NegativeBalance"
    /\ \E id \in DOMAIN accounts[1] : \E c \in DOMAIN accounts[1][id].current :
          accounts[1][id].current[c][1] > 0

\* C3 as claimed: while every command so far was accepted, each account's cached
\* current equals the fold of results() deltas over the transactions collection
C3_CurrentIsFold ==
    all_ok =>
        \A id \in DOMAIN accounts[1] :
            accounts[1][id].current = fold_deltas(NoAmounts, StoredTransactions, id)

\* some participant that exists would end below zero in some currency
DrivesNegative(mem, t) ==
    \E id \in DOMAIN mem :
        ~NonNegative(add_all(mem[id].current, amounts_for(results(t), id)))

Balances(mem) == [id \in DOMAIN mem |-> mem[id].current]
FileBalances(tree) == [id \in DOMAIN tree.accounts |-> tree.accounts[id].current]

\* C4: an AddTransaction that would drive a participant negative returns an error
\* and leaves every balance as it was, in memory and in the account files
C4_RejectedKeepsBalances ==
    [][(IsCall /\ cmd'.op = "AddTransaction"
            /\ DrivesNegative(accounts[1], cmd'.transaction))
        => /\ result'[1] # "Ok"
           /\ Balances(accounts'[1]) = Balances(accounts[1])
           /\ FileBalances(wt') = FileBalances(wt)]_vars

\* a Paid was refused for its second participant although the first one, which
\* holds money, could have paid
C4_Witness ==
    /\ cmd.op = "AddTransaction"
    /\ cmd.transaction.inner.type = "Paid"
    /\ result[1] = "NegativeBalance"
    /\ cmd.transaction.inner.src \in DOMAIN accounts[1]
    /\ cmd.transaction.inner.src # cmd.transaction.inner.src_virt
    /\ add_amounts(accounts[1][cmd.transaction.inner.src],
                   <<Neg(cmd.transaction.amount)>>).err = "Ok"

Rejected(r) == r \in {"NegativeBalance", "NoSuchAccount", "DuplicateId"}

\* C5 as claimed: a rejected AddTransaction leaves no file in the transactions
\* collection: the collection is as it was before the call
C5_RejectedNotPersisted ==
    [][(IsCall /\ cmd'.op = "AddTransaction" /\ Rejected(result'[1]))
        => wt'.transactions = wt.transactions]_vars

\* C6 as claimed: after a command rejected by the invariant engine the working
\* tree and the index are identical to the last commit
C6_RejectedLeavesClean ==
    Rejected(result[1]) => (wt = head.tree /\ index = head.tree)

\* C7 as claimed: CreateAccount with an id already present fails and leaves the
\* existing account unchanged in memory and in its file
C7_DuplicateKeepsAccount ==
    [][(IsCall /\ cmd'.op = "CreateAccount" /\ cmd'.account.id \in DOMAIN accounts[1])
        => /\ result'[1] # "Ok"
           /\ accounts'[1] = accounts[1]
           /\ wt'.accounts = wt.accounts]_vars

\* C12: UpdateAccount with an id that names no account fails with the
\* no-such-account error and changes nothing: the in-memory index, the working
\* tree, the index and HEAD are as before
C12_UpdateUnknownFails ==
    [][(IsCall /\ cmd'.op = "UpdateAccount" /\ cmd'.id \notin DOMAIN accounts[1])
        => /\ result'[1] = "NoSuchAccount"
           /\ accounts' = accounts
           /\ wt' = wt /\ index' = index /\ head' = head]_vars

\* C24 as claimed: a transaction of the last commit stays in the collection
\* with the content it was accepted with, whatever command follows, and an
\* AddTransaction that carries its id is rejected
C24_TransactionsImmutable ==
    [][\A id \in DOMAIN head.tree.transactions :
          /\ id \in DOMAIN wt'.transactions
          /\ wt'.transactions[id] = head.tree.transactions[id]
          /\ id \in DOMAIN head'.tree.transactions
          /\ head'.tree.transactions[id] = head.tree.transactions[id]
          /\ (IsCall /\ cmd'.op = "AddTransaction" /\ cmd'.transaction.id = id)
                => result'[1] # "Ok"]_vars

\* an update with a non-empty change list was refused for an unknown id
C12_Witness ==
    /\ cmd.op = "UpdateAccount"
    /\ cmd.changes # <<>>
    /\ cmd.id \notin DOMAIN accounts[1]
    /\ result[1] = "NoSuchAccount"

----------------------------------------------------------------------------
(* The relational store driven by one connection *)

\* whether REFERENCES is enforced depends on how SQLite was built
SqlInit ==
    /\ LocalNone /\ CallInit /\ PureNone /\ NetNone
    /\ db = EmptyDb
    /\ foreign_keys \in BOOLEAN

SqlRunCommand(c) ==
    /\ ncmds < MaxCmds
    /\ \E r \in {sql_run_command(db, foreign_keys, c)} :
          /\ db' = r.db
          /\ result' = [result EXCEPT ![1] = r.result]
          /\ all_ok' = (all_ok /\ r.result = "Ok")
    /\ cmd' = c
    /\ ncmds' = ncmds + 1
    /\ UNCHANGED <<localVars, foreign_keys, pureVars, netVars>>

SqlCreateAccount ==
    \E a \in NewAccounts : SqlRunCommand([op |-> "CreateAccount", account |-> a])

SqlUpdateAccount ==
    \E id \in AccountIds, ch \in Changes :
        SqlRunCommand([op |-> "UpdateAccount", id |-> id, changes |-> ch])

SqlAddTransaction ==
    \E t \in Transactions : SqlRunCommand([op |-> "AddTransaction", transaction |-> t])

SqlNext == SqlCreateAccount \/ SqlUpdateAccount \/ SqlAddTransaction

SqlSpec == SqlInit /\ [][SqlNext]_vars

\* some account row's recomputed balance would be negative once t is stored
SqlDrivesNegative(d, t) ==
    \E i \in 1..Len(d.accounts) :
        ~NonNegative(fold_deltas(NoAmounts,
                                 sql_transactions(d, d.accounts[i].id).value \o <<t>>,
                                 d.accounts[i].id))

\* C2 as claimed: an AddTransaction that would make a recomputed balance negative
\* is rejected and rolled back, and accounts() never reports a negative amount
C2_SqlRejectsNegative ==
    /\ [][(IsCall /\ cmd'.op = "AddTransaction" /\ SqlDrivesNegative(db, cmd'.transaction))
            => (result'[1] # "Ok" /\ db' = db)]_vars
    /\ [](sql_accounts(db).ok =>
            \A i \in 1..Len(sql_accounts(db).value) :
                NonNegative(sql_accounts(db).value[i].current))

\* C13 as claimed: UpdateAccount with an id that names no row of accounts
\* fails, and the accounts and commands tables are as before
C13_SqlUpdateUnknownFails ==
    [][(IsCall /\ cmd'.op = "UpdateAccount" /\ ~HasId(db.accounts, cmd'.id))
        => /\ result'[1] # "Ok"
           /\ db'.accounts = db.accounts
           /\ db'.commands = db.commands]_vars

\* C16: a run_command that fails leaves the three tables as they were; a row
\* is added to commands exactly when the call succeeds, and the accounts and
\* transactions tables change only in a call that adds that row
C16_SqlAllOrNothing ==
    [][IsCall =>
        /\ result'[1] # "Ok" => db' = db
        /\ result'[1] = "Ok" => db'.commands = Append(db.commands, cmd')
        /\ (db'.accounts # db.accounts \/ db'.transactions # db.transactions)
              => db'.commands = Append(db.commands, cmd')]_vars

\* a command was refused by a constraint on a database that holds rows in all
\* three tables
C16_Witness ==
    /\ result[1] = "ConstraintFailed"
    /\ db.accounts # <<>>
    /\ db.transactions # <<>>
    /\ db.commands # <<>>

----------------------------------------------------------------------------
(* Transaction::results applied to one transaction *)

AnyAmounts == {<<100, "EUR">>, <<150, "EUR">>, <<0, "EUR">>, <<-50, "USD">>}

AnyTransactions ==
    {[id |-> 1, notes |-> "", amount |-> am, inner |-> inn] :
        am \in AnyAmounts, inn \in AllInners}

ResultsInit ==
    /\ LocalNone /\ CallInit /\ SqlNone /\ NetNone
    /\ tx_in \in AnyTransactions
    /\ tx_out = <<>>

CallResults ==
    /\ tx_out = <<>>
    /\ tx_out' = results(tx_in)
    /\ UNCHANGED <<localVars, callVars, sqlVars, tx_in, netVars>>

ResultsNext == CallResults

ResultsSpec == ResultsInit /\ [][ResultsNext]_vars

RECURSIVE SumOf(_, _)
\* the sum of the minor units of a list of amounts in one currency
SumOf(amounts, c) ==
    IF amounts = <<>> THEN 0
    ELSE (IF Head(amounts)[2] = c THEN Head(amounts)[1] ELSE 0) + SumOf(Tail(amounts), c)

\* what the list tx_out gives account a in currency c
Given(a, c) == SumOf(amounts_for(tx_out, a), c)

\* n if a fills the slot, else 0
Slot(a, slot, n) == IF a = slot THEN n ELSE 0

\* the amount of tx_in in currency c
AmountIn(c) == IF tx_in.amount[2] = c THEN tx_in.amount[1] ELSE 0
NewAmountIn(c) ==
    IF tx_in.inner.new_amount[2] = c THEN tx_in.inner.new_amount[1] ELSE 0

\* C8: results() is the delta table: Received +amount to dst and dst_virt, Paid
\* -amount to src and src_virt, MovePhys and MoveVirt -amount to src and +amount
\* to dst with nothing lost, Convert -amount and +new_amount to acc and acc_virt,
\* and no account outside the two slots gets a delta
C8_DeltaTable ==
    tx_out # <<>> =>
        LET inn == tx_in.inner
        IN /\ \A i \in 1..Len(tx_out) :
                \E k \in 1..2 : tx_out[i][1] = Transaction_accounts(tx_in)[k]
           /\ \A a \in AccountIds, c \in Currencies :
                Given(a, c) =
                    CASE inn.type = "Received" ->
                            Slot(a, inn.dst, AmountIn(c)) + Slot(a, inn.dst_virt, AmountIn(c))
                      [] inn.type = "Paid" ->
                            Slot(a, inn.src, -AmountIn(c)) + Slot(a, inn.src_virt, -AmountIn(c))
                      [] inn.type \in {"MovePhys", "MoveVirt"} ->
                            Slot(a, inn.src, -AmountIn(c)) + Slot(a, inn.dst, AmountIn(c))
                      [] inn.type = "Convert" ->
                            Slot(a, inn.acc, NewAmountIn(c) - AmountIn(c))
                            + Slot(a, inn.acc_virt, NewAmountIn(c) - AmountIn(c))
           /\ inn.type \in {"MovePhys", "MoveVirt"} =>
                \A c \in Currencies :
                    SumOf([i \in 1..Len(tx_out) |-> tx_out[i][2]], c) = 0

\* results() has run on a MovePhys between two different accounts
C8_Witness ==
    /\ tx_out # <<>>
    /\ tx_in.inner.type = "MovePhys"
    /\ tx_in.inner.src # tx_in.inner.dst
    /\ tx_in.amount[1] > 0

----------------------------------------------------------------------------
(* LockSpec: two processes init, open, use and close one store directory *)

LockInit == LocalNone /\ CallInit /\ SqlNone /\ PureNone /\ NetNone

LockNext ==
    \E p \in Procs :
        \/ InitBegin(p)
        \/ InitScaffold(p)
        \/ InitAcquire(p)
        \/ OpenCheck(p)
        \/ OpenAcquire(p)
        \/ Close(p)
        \/ CreateAccount(p)
        \/ UpdateAccount(p)
        \/ AcquireWriteFails(p)
        \/ InitCommitFails(p)
        \/ OpenLoadFails(p)

LockSpec == LockInit /\ [][LockNext]_vars

Holder(p) == pc[p] = "open"

\* the step is one of process p's init or open
OpensStep(p) == cmd'.op \in {"Init", "Open"} /\ cmd'.proc = p

\* C9 (as the code has it): at most one process holds the store open and the
\* holder's pid is in the lock file; while the lock file exists no init or
\* open step of another process makes it a holder or touches the file, and
\* the step that tries to create the file fails with the already-locked error
C9_OneHolder ==
    /\ [](\A p \in Procs : Holder(p) => lock = p)
    /\ [][\A p \in Procs :
            (lock # 0 /\ OpensStep(p)) =>
                /\ ~Holder(p)'
                /\ lock' = lock
                /\ pc[p] \in {"init_scaffolded", "open_checked"} =>
                      (pc'[p] = "none" /\ result'[p] = "Locked")]_vars

\* process 2 was refused with the already-locked error while 1 holds the store
C9_Witness ==
    /\ Holder(1)
    /\ lock = 1
    /\ cmd = Call("Open", 2)
    /\ pc[2] = "none"
    /\ result[2] = "Locked"

\* C9 (as the spec has it): an init or open that ends while the lock file
\* exists has failed with the already-locked error, the file untouched
C9_FailsAlreadyLocked ==
    [][\A p \in Procs :
        (lock # 0 /\ OpensStep(p) /\ pc'[p] \in {"none", "open"}) =>
            (pc'[p] = "none" /\ result'[p] = "Locked" /\ lock' = lock)]_vars

\* the store directory exists and holds something: the .git directory, the
\* lock file, or a file or directory of the working tree
NonEmptyDirectory == path_exists /\ (git_dir \/ lock # 0 \/ wt # EmptyTree)

\* C31: an init call on an existing directory that is not empty fails with the
\* must-be-empty error and returns no handle; the working tree, the index, the
\* commits, the .git directory and the lock file are as they were
C31_InitNonEmptyFails ==
    [][\A p \in Procs :
        (NonEmptyDirectory /\ pc[p] = "none" /\ cmd' = Call("Init", p))
          => /\ result'[p] = "NotEmpty"
             /\ pc'[p] = "none"
             /\ accounts'[p] = accounts[p]
             /\ UNCHANGED <<path_exists, git_dir, wt, index, head, lock>>]_vars

\* an init call has failed on a directory that holds an initialised store
\* which nobody has open
C31_Witness ==
    \E p \in Procs :
        /\ cmd = Call("Init", p)
        /\ result[p] = "NotEmpty"
        /\ pc[p] = "none"
        /\ head.born /\ git_dir /\ lock = 0

\* the store as an init that found nothing but its own scaffold leaves it:
\* one commit, holding the scaffold and the default account under id i, the
\* working tree and the index equal to it, and no command run since
AsInitLeftIt(i) ==
    /\ head = [born |-> TRUE,
               tree |-> [scaffold |-> TRUE,
                         accounts |-> (i :> Account_ser(DefaultAccount(i))),
                         transactions |-> <<>>]]
    /\ wt = head.tree
    /\ index = head.tree
    /\ ncmds = 0

\* C28: an init that finds the directory absent or empty and returns Ok
\* leaves one enabled Virtual account with no balance, in its handle and
\* committed; on a store so left and not locked, open passes its checks,
\* takes the lock and lists exactly that account, unless an I/O call fails
C28_InitThenOpen ==
    [][\A p \in Procs :
        /\ (/\ pc[p] = "init_scaffolded" /\ pc'[p] = "open"
            /\ wt.accounts = <<>> /\ index.accounts = <<>> /\ ~head.born)
              => /\ accounts'[p] = (p :> DefaultAccount(p))
                 /\ DefaultAccount(p).typ = "Virtual"
                 /\ DefaultAccount(p).enabled
                 /\ DefaultAccount(p).current = NoAmounts
                 /\ AsInitLeftIt(p)'
        /\ \A i \in Procs :
             (AsInitLeftIt(i) /\ lock = 0 /\ OpensStep(p) /\ cmd'.op = "Open"
                  /\ result'[p] # "IoError")
               => /\ pc[p] = "none" => (pc'[p] = "open_checked" /\ result'[p] = "Ok")
                  /\ pc[p] = "open_checked" =>
                        /\ pc'[p] = "open"
                        /\ lock' = p
                        /\ accounts'[p] = (i :> DefaultAccount(i))]_vars

\* a process has opened, without error, the store another process's init
\* created and then closed
C28_Witness ==
    \E p, i \in Procs :
        /\ p # i
        /\ AsInitLeftIt(i)
        /\ cmd = Call("Open", p)
        /\ pc[p] = "open"
        /\ pc[i] = "none"
        /\ result[p] = "Ok"
        /\ accounts[p] = (i :> DefaultAccount(i))

\* C11 as claimed: a close removes the lock file, and an init or open that
\* fails leaves no lock file that it created itself
C11_LockReleased ==
    [][\A p \in Procs :
        /\ (OpensStep(p) /\ pc'[p] = "none" /\ lock = 0) => lock' = 0
        /\ (cmd' = Call("Close", p) /\ pc'[p] = "none") => lock' = 0]_vars

----------------------------------------------------------------------------
(* CrashSpec: one process uses the store, dies inside a command, the lock is
   removed by hand and the store is opened again *)

Commands ==
    {[op |-> "CreateAccount", account |-> a] : a \in NewAccounts}
    \cup {[op |-> "UpdateAccount", id |-> id, changes |-> ch] :
            id \in AccountIds, ch \in Changes}
    \cup {[op |-> "AddTransaction", transaction |-> t] : t \in Transactions}

Crash(p) == \E c \in Commands : CrashInCommand(p, c)

CrashNext ==
    \/ CreateAccount(1)
    \/ UpdateAccount(1)
    \/ AddTransaction(1)
    \/ Crash(1)
    \/ RemoveStaleLock
    \/ Restart(1)
    \/ OpenCheck(1)
    \/ OpenAcquire(1)
    \/ Close(1)

CrashSpec == Init /\ [][CrashNext]_vars

Uncommitted == wt # head.tree \/ index # head.tree

\* C10: once the lock file is removed, an open of a store that holds a
\* written or staged but uncommitted file fails with the dirty-repository
\* error, and no open succeeds on such a store
C10_CrashLeavesDirty ==
    [][/\ (Uncommitted /\ lock = 0 /\ cmd'.op = "Open" /\ pc[1] = "none") =>
            (pc'[1] = "none" /\ result'[1] = "Dirty")
       /\ (Uncommitted /\ cmd'.op = "Open") => pc'[1] # "open"]_vars

----------------------------------------------------------------------------
(* BothSpec: the same commands run against a local store and a relational
   store; result[1] is the local outcome, result[2] the relational one *)

\* accounts created with money in them
FundedAccounts ==
    {[id |-> 2, name |-> "F", notes |-> "", typ |-> "Physical",
      current |-> add_assign(NoAmounts, <<100, "EUR">>), enabled |-> en] :
        en \in BOOLEAN}

BothInit ==
    /\ LocalFresh /\ CallInit /\ PureNone /\ NetNone
    /\ db = EmptyDb
    /\ foreign_keys \in BOOLEAN

BothRunCommand(c) ==
    /\ pc[1] = "open"
    /\ ncmds < MaxCmds
    /\ \E r \in {run_command(St(1), c)}, q \in {sql_run_command(db, foreign_keys, c)} :
          /\ accounts' = [accounts EXCEPT ![1] = r.st.accounts]
          /\ wt' = r.st.wt
          /\ index' = r.st.index
          /\ head' = r.st.head
          /\ db' = q.db
          /\ result' = [result EXCEPT ![1] = r.result, ![2] = q.result]
          /\ all_ok' = (all_ok /\ r.result = "Ok" /\ q.result = "Ok")
    /\ cmd' = c
    /\ ncmds' = ncmds + 1
    /\ UNCHANGED <<path_exists, git_dir, lock, pc, foreign_keys, pureVars, netVars>>

BothCreateAccount ==
    \E a \in NewAccounts \cup FundedAccounts :
        BothRunCommand([op |-> "CreateAccount", account |-> a])

BothUpdateAccount ==
    \E id \in {1, 2}, ch \in Changes :
        BothRunCommand([op |-> "UpdateAccount", id |-> id, changes |-> ch])

BothAddTransaction ==
    \E t \in {t \in Transactions : t.amount[1] = 100} :
        BothRunCommand([op |-> "AddTransaction", transaction |-> t])

BothNext == BothCreateAccount \/ BothUpdateAccount \/ BothAddTransaction

BothSpec == BothInit /\ [][BothNext]_vars

RECURSIVE LastValue(_, _, _)
\* the value of the last change of this kind in the list, else the default
LastValue(changes, kind, default) ==
    IF changes = <<>> THEN default
    ELSE LET c == changes[Len(changes)]
         IN IF c.kind # kind THEN LastValue(SubSeq(changes, 1, Len(changes) - 1),
                                            kind, default)
            ELSE IF kind = "UpdateName" THEN c.name ELSE c.notes

\* the account an update has to leave
Updated(acc, changes) ==
    [acc EXCEPT !.name = LastValue(changes, "UpdateName", acc.name),
                !.notes = LastValue(changes, "UpdateNotes", acc.notes),
                !.enabled = acc.enabled /\ \A i \in 1..Len(changes) :
                                              changes[i].kind # "Disable"]

\* C14: UpdateAccount on an existing account leaves, on either store, the
\* account with the last UpdateName and the last UpdateNotes of the list,
\* disabled iff it was disabled or the list holds Disable, its id, type and
\* current as they were, and every other account as it was
C14_UpdateAppliesInOrder ==
    [][(IsCall /\ cmd'.op = "UpdateAccount") =>
        /\ cmd'.id \in DOMAIN accounts[1] =>
            /\ accounts'[1] = [accounts[1] EXCEPT
                                 ![cmd'.id] = Updated(@, cmd'.changes)]
            /\ DOMAIN wt'.accounts = DOMAIN wt.accounts
            /\ \A id \in DOMAIN wt.accounts :
                  wt'.accounts[id] =
                      IF id = cmd'.id
                      THEN Account_ser(Updated(accounts[1][id], cmd'.changes))
                      ELSE wt.accounts[id]
        /\ HasId(db.accounts, cmd'.id) =>
            /\ sql_accounts(db').ok = sql_accounts(db).ok
            /\ Len(sql_accounts(db').value) = Len(sql_accounts(db).value)
            /\ \A i \in 1..Len(sql_accounts(db).value) :
                  sql_accounts(db').value[i] =
                      IF sql_accounts(db).value[i].id = cmd'.id
                      THEN Updated(sql_accounts(db).value[i], cmd'.changes)
                      ELSE sql_accounts(db).value[i]]_vars

\* both stores have applied a list that names the name and the notes twice,
\* the account holding money on both
C14_Witness ==
    /\ cmd.op = "UpdateAccount"
    /\ Len(cmd.changes) > 3
    /\ result = <<"Ok", "Ok">>
    /\ cmd.id \in DOMAIN accounts[1]
    /\ accounts[1][cmd.id].name = "B"
    /\ accounts[1][cmd.id].current # NoAmounts
    /\ \E i \in 1..Len(sql_accounts(db).value) :
          /\ sql_accounts(db).value[i].id = cmd.id
          /\ sql_accounts(db).value[i].name = "B"
          /\ sql_accounts(db).value[i].current # NoAmounts

\* C15 as claimed: after a CreateAccount(a) that succeeded on a store, that
\* store reports an account a.id whose current is a.current and whose enabled
\* flag is a.enabled
C15_CreateKeepsCurrent ==
    [][(IsCall /\ cmd'.op = "CreateAccount") =>
        /\ result'[1] = "Ok" =>
            /\ cmd'.account.id \in DOMAIN accounts'[1]
            /\ accounts'[1][cmd'.account.id].current = cmd'.account.current
            /\ accounts'[1][cmd'.account.id].enabled = cmd'.account.enabled
        /\ result'[2] = "Ok" =>
            \E i \in 1..Len(sql_accounts(db').value) :
                /\ sql_accounts(db').value[i].id = cmd'.account.id
                /\ sql_accounts(db').value[i].current = cmd'.account.current
                /\ sql_accounts(db').value[i].enabled = cmd'.account.enabled]_vars

\* the account type each participant slot of a transaction asks for
SlotTypes(t) ==
    LET a == Transaction_accounts(t)
    IN CASE t.inner.type = "MovePhys" -> << <<a[1], "Physical">>, <<a[2], "Physical">> >>
         [] t.inner.type = "MoveVirt" -> << <<a[1], "Virtual">>, <<a[2], "Virtual">> >>
         [] OTHER -> << <<a[1], "Physical">>, <<a[2], "Virtual">> >>

\* C17 as claimed: on either store an AddTransaction is accepted only if every
\* slot names an existing account of the slot's type
C17_SlotsTypeChecked ==
    [][(IsCall /\ cmd'.op = "AddTransaction") =>
        /\ result'[1] = "Ok" =>
            \A k \in 1..2 :
                /\ SlotTypes(cmd'.transaction)[k][1] \in DOMAIN accounts[1]
                /\ accounts[1][SlotTypes(cmd'.transaction)[k][1]].typ =
                       SlotTypes(cmd'.transaction)[k][2]
        /\ result'[2] = "Ok" =>
            \A k \in 1..2 : \E i \in 1..Len(db.accounts) :
                /\ db.accounts[i].id = SlotTypes(cmd'.transaction)[k][1]
                /\ db.accounts[i].typ = SlotTypes(cmd'.transaction)[k][2]]_vars

----------------------------------------------------------------------------
(* repository/remote.rs: run_session, the server side of one stream-protocol
   connection, process 1 serving a local store *)

\* an initialised store nobody holds open
LocalClosed ==
    /\ path_exists = TRUE
    /\ git_dir = TRUE
    /\ wt = Tree0
    /\ index = Tree0
    /\ head = [born |-> TRUE, tree |-> Tree0]
    /\ lock = 0
    /\ pc = [p \in Procs |-> "none"]
    /\ accounts = [p \in Procs |-> <<>>]

\* session.inbox: client-to-server messages written and not yet read, as
\* their JSON; session.read: those run_session has read and decoded;
\* session.outbox: every message the server has sent, as its JSON;
\* session.nrecv: how many of them the client has read; session.serr: the
\* error run_session has returned with; session.cresult: what the client's
\* last call returned
SessionStart ==
    session = [spc |-> "start", inbox |-> <<>>, read |-> <<>>, outbox |-> <<>>,
               eof |-> FALSE, cpc |-> "init", cache |-> <<>>, nrecv |-> 0,
               cresult |-> "Ok", broken |-> FALSE, serr |-> "Ok"]

\* serde_json of Vec<Account> and Vec<Transaction>, the two replies
AccountList_ser(accs) == [id \in DOMAIN accs |-> Account_ser(accs[id])]
AccountList_de_ok(text) == \A id \in DOMAIN text : Account_de_ok(text[id])
AccountList_de(text) == [id \in DOMAIN text |-> Account_de(text[id])]

TransactionList_ser(seq) == [i \in 1..Len(seq) |-> Transaction_ser(seq[i])]
TransactionList_de_ok(text) == \A i \in 1..Len(text) : Transaction_de_ok(text[i])
TransactionList_de(text) == [i \in 1..Len(text) |-> Transaction_de(text[i])]

\* serde_json of Command and of Message
Command_ser(c) ==
    CASE c.op = "CreateAccount" -> [c EXCEPT !.account = Account_ser(@)]
      [] c.op = "AddTransaction" -> [c EXCEPT !.transaction = Transaction_ser(@)]
      [] OTHER -> c
Command_de_ok(f) ==
    CASE f.op = "CreateAccount" -> Account_de_ok(f.account)
      [] f.op = "AddTransaction" -> Transaction_de_ok(f.transaction)
      [] OTHER -> TRUE
Command_de(f) ==
    CASE f.op = "CreateAccount" -> [f EXCEPT !.account = Account_de(@)]
      [] f.op = "AddTransaction" -> [f EXCEPT !.transaction = Transaction_de(@)]
      [] OTHER -> f

Message_ser(m) ==
    IF m.type = "Command" THEN [m EXCEPT !.command = Command_ser(@)] ELSE m
Message_de_ok(f) == f.type = "Command" => Command_de_ok(f.command)
Message_de(f) ==
    IF f.type = "Command" THEN [f EXCEPT !.command = Command_de(@)] ELSE f

\* the replies as connection.send writes them
AccountsMsg(accs) == [type |-> "Accounts", value |-> AccountList_ser(accs)]
TransactionsMsg(seq) == [type |-> "Transactions", value |-> TransactionList_ser(seq)]

SessionCommands ==
    {[op |-> "CreateAccount", account |-> a] : a \in NewAccounts}
    \cup {[op |-> "UpdateAccount", id |-> 1, changes |-> <<[kind |-> "Disable"]>>]}
    \cup {[op |-> "AddTransaction", transaction |-> t] :
            t \in {t \in Transactions :
                      /\ t.amount[1] = 100
                      /\ t.inner.type \in {"Received", "Paid"}}}

\* enum Message
SessionMessages ==
    {[type |-> "Command", command |-> c] : c \in SessionCommands}
    \cup {[type |-> "Transactions", account |-> id] : id \in {1, 2}}

\* the Repository of the session goes out of scope
SessionDrop ==
    /\ lock' = drop_lock(lock, 1).lock
    /\ pc' = [pc EXCEPT ![1] = "none"]
    /\ accounts' = [accounts EXCEPT ![1] = <<>>]

\* Repository::open, then connection.send(repo.accounts())
SessionOpen ==
    /\ session.spc = "start"
    /\ IF /\ open_checks(path_exists /\ git_dir, St(1)) = "Ok"
          /\ acquire(lock, 1).ok
          /\ load_accounts(wt).ok
       THEN /\ lock' = acquire(lock, 1).lock
            /\ pc' = [pc EXCEPT ![1] = "open"]
            /\ accounts' = [accounts EXCEPT ![1] = load_accounts(wt).value]
            /\ session' = [session EXCEPT
                             !.spc = "recv",
                             !.outbox = <<AccountsMsg(accounts_list(load_accounts(wt).value))>>]
       ELSE /\ session' = [session EXCEPT
                             !.spc = "failed",
                             !.serr = IF open_checks(path_exists /\ git_dir, St(1)) # "Ok"
                                      THEN open_checks(path_exists /\ git_dir, St(1))
                                      ELSE IF ~acquire(lock, 1).ok THEN "AlreadyLocked"
                                      ELSE "InvalidEncoding"]
            /\ UNCHANGED <<lock, pc, accounts>>
    /\ UNCHANGED <<path_exists, git_dir, wt, index, head, callVars, sqlVars, pureVars, http, listener>>

\* connection.receive_or_eof(): the next message, decoded, or the end of
\* the stream, on which run_session returns Ok; a message that does not
\* decode is an error that leaves run_session through `?`
SessionReceive ==
    /\ session.spc = "recv"
    /\ IF session.inbox # <<>>
       THEN IF Message_de_ok(Head(session.inbox))
            THEN /\ session' = [session EXCEPT
                                  !.spc = "got",
                                  !.read = Append(@, Message_de(Head(session.inbox))),
                                  !.inbox = Tail(@)]
                 /\ UNCHANGED <<lock, pc, accounts>>
            ELSE /\ session' = [session EXCEPT !.spc = "failed", !.inbox = Tail(@),
                                               !.serr = "InvalidEncoding"]
                 /\ SessionDrop
       ELSE /\ session.eof
            /\ session' = [session EXCEPT !.spc = "done"]
            /\ SessionDrop
    /\ UNCHANGED <<path_exists, git_dir, wt, index, head, callVars, sqlVars, pureVars, http, listener>>

\* the match of run_session on the message just read: run the command or the
\* query and send the reply; an error leaves run_session through `?`
SessionHandle ==
    /\ session.spc = "got"
    /\ LET m == session.read[Len(session.read)]
       IN IF m.type = "Command"
          THEN \E r \in {run_command(St(1), m.command)} :
                  /\ wt' = r.st.wt
                  /\ index' = r.st.index
                  /\ head' = r.st.head
                  /\ IF r.result = "Ok"
                     THEN /\ accounts' = [accounts EXCEPT ![1] = r.st.accounts]
                          /\ session' = [session EXCEPT
                                !.spc = "recv",
                                !.outbox = Append(@, AccountsMsg(accounts_list(r.st.accounts)))]
                          /\ UNCHANGED <<lock, pc>>
                     ELSE /\ session' = [session EXCEPT !.spc = "failed",
                                                        !.serr = r.result]
                          /\ SessionDrop
          ELSE /\ UNCHANGED <<wt, index, head>>
               /\ IF transactions_ok(wt)
                  THEN /\ session' = [session EXCEPT
                                !.spc = "recv",
                                !.outbox = Append(@, TransactionsMsg(transactions(wt, m.account)))]
                       /\ UNCHANGED <<lock, pc, accounts>>
                  ELSE /\ session' = [session EXCEPT !.spc = "failed",
                                                     !.serr = "InvalidEncoding"]
                       /\ SessionDrop
    /\ UNCHANGED <<path_exists, git_dir, callVars, sqlVars, pureVars, http, listener>>

\* the peer writes a message to the stream without waiting for anything
PeerSend ==
    /\ ~session.eof
    /\ session.spc \notin {"done", "failed"}
    /\ Len(session.read) + Len(session.inbox) < MaxCmds
    /\ \E m \in SessionMessages :
          session' = [session EXCEPT !.inbox = Append(@, Message_ser(m))]
    /\ UNCHANGED <<localVars, callVars, sqlVars, pureVars, http, listener>>

\* the peer closes its side of the stream
PeerClose ==
    /\ ~session.eof
    /\ session' = [session EXCEPT !.eof = TRUE]
    /\ UNCHANGED <<localVars, callVars, sqlVars, pureVars, http, listener>>

SessionInit ==
    /\ LocalClosed /\ CallInit /\ SqlNone /\ PureNone
    /\ SessionStart /\ HttpNone /\ ListenerNone

SessionNext == SessionOpen \/ SessionReceive \/ SessionHandle \/ PeerSend \/ PeerClose

SessionSpec == SessionInit /\ [][SessionNext]_vars

\* C18 as claimed: the first message the server sends is the account list;
\* while it holds request k it has sent the replies to the k-1 before it and
\* nothing else, and whenever it holds none every request read has its reply,
\* an account list for a Command and a transaction list for a query
C18_OneReplyPerRequest ==
    session.spc # "start" =>
        /\ session.outbox # <<>>
        /\ session.outbox[1].type = "Accounts"
        /\ Len(session.outbox) =
               IF session.spc = "got" THEN Len(session.read) ELSE Len(session.read) + 1
        /\ \A k \in 2..Len(session.outbox) :
               session.outbox[k].type =
                   IF session.read[k - 1].type = "Command" THEN "Accounts"
                   ELSE "Transactions"

----------------------------------------------------------------------------
(* repository/remote.rs: RemoteRepository, the client of a stream session *)

\* serde_json::from_slice of a reply, as the type the caller expects
Reply_de_ok(msg) ==
    IF msg.type = "Accounts" THEN AccountList_de_ok(msg.value)
    ELSE TransactionList_de_ok(msg.value)
Reply_de(msg) ==
    IF msg.type = "Accounts" THEN AccountList_de(msg.value)
    ELSE TransactionList_de(msg.value)

\* Connection::receive as the client sees it: the next unread server message,
\* decoded, or an error once the stream has ended, the transport is broken or
\* the message does not decode; [ok, value, err, took: a message was read]
client_receive(sess) ==
    IF sess.broken THEN [ok |-> FALSE, value |-> <<>>, err |-> "Io", took |-> FALSE]
    ELSE IF Len(sess.outbox) > sess.nrecv
    THEN IF Reply_de_ok(sess.outbox[sess.nrecv + 1])
         THEN [ok |-> TRUE, value |-> Reply_de(sess.outbox[sess.nrecv + 1]),
               err |-> "Ok", took |-> TRUE]
         ELSE [ok |-> FALSE, value |-> <<>>, err |-> "InvalidEncoding", took |-> TRUE]
    ELSE [ok |-> FALSE, value |-> <<>>, err |-> "UnexpectedEof", took |-> FALSE]

\* what a call returns when the connection fails under it: the stream ends
\* (the eyre!("Unexpected EOF") of receive) or the read fails
TransportOutcomes == {"UnexpectedEof", "Io"}

\* Connection::receive returns, rather than blocks
CanReceive(sess) ==
    \/ sess.broken
    \/ Len(sess.outbox) > sess.nrecv
    \/ sess.spc \in {"done", "failed"}

\* run_command, had it dropped its cache on an error
remote_run_command_clearing(cache, reply) ==
    IF reply.ok THEN [cache |-> reply.value, result |-> "Ok"]
    ELSE [cache |-> <<>>, result |-> reply.err]

\* RemoteRepository::run_command: self.accounts = self.handle.run_command(c)?
remote_run_command(cache, reply) ==
    IF reply.ok THEN [cache |-> reply.value, result |-> "Ok"]
    ELSE [cache |-> cache, result |-> reply.err]

\* RemoteRepository::open_tcp: read the initial account list
ClientConnect ==
    /\ session.cpc = "init"
    /\ CanReceive(session)
    /\ \E r \in {client_receive(session)} :
          session' = IF r.ok
                     THEN [session EXCEPT !.cpc = "idle", !.cache = r.value,
                                          !.nrecv = @ + 1, !.cresult = "Ok"]
                     ELSE [session EXCEPT !.cpc = "closed", !.cresult = r.err,
                                          !.nrecv = IF r.took THEN @ + 1 ELSE @]
    /\ UNCHANGED <<localVars, callVars, sqlVars, pureVars, http, listener>>

\* RemoteHandle::run_command and ::transactions up to conn.send
ClientSend ==
    /\ session.cpc = "idle"
    /\ Len(session.read) + Len(session.inbox) < MaxCmds
    /\ \E m \in SessionMessages :
          session' = [session EXCEPT
                        !.inbox = Append(@, Message_ser(m)),
                        !.cpc = IF m.type = "Command" THEN "wait_cmd" ELSE "wait_tx"]
    /\ UNCHANGED <<localVars, callVars, sqlVars, pureVars, http, listener>>

\* conn.receive() of the pending call returns and the call with it
ClientReceive ==
    /\ session.cpc \in {"wait_cmd", "wait_tx"}
    /\ CanReceive(session)
    /\ \E r \in {client_receive(session)} :
          session' = [session EXCEPT
                        !.cpc = "idle",
                        !.nrecv = IF r.took THEN @ + 1 ELSE @,
                        !.cache = IF session.cpc = "wait_cmd"
                                  THEN remote_run_command(@, r).cache ELSE @,
                        !.cresult = IF session.cpc = "wait_cmd"
                                    THEN remote_run_command(session.cache, r).result
                                    ELSE r.err]
    /\ UNCHANGED <<localVars, callVars, sqlVars, pureVars, http, listener>>

\* the connection breaks while a call waits for its reply
ClientTransportError ==
    /\ session.cpc \in {"wait_cmd", "wait_tx"}
    /\ ~session.broken
    /\ \E e \in TransportOutcomes :
          session' = [session EXCEPT
                        !.broken = TRUE,
                        !.eof = TRUE,
                        !.cpc = "idle",
                        !.cache = IF session.cpc = "wait_cmd"
                                  THEN remote_run_command(@, [ok |-> FALSE, err |-> e]).cache
                                  ELSE @,
                        !.cresult = e]
    /\ UNCHANGED <<localVars, callVars, sqlVars, pureVars, http, listener>>

\* the RemoteRepository is dropped
ClientClose ==
    /\ session.cpc = "idle"
    /\ session' = [session EXCEPT !.cpc = "closed", !.eof = TRUE]
    /\ UNCHANGED <<localVars, callVars, sqlVars, pureVars, http, listener>>

RemoteNext ==
    \/ SessionOpen \/ SessionReceive \/ SessionHandle
    \/ ClientConnect \/ ClientSend \/ ClientReceive \/ ClientTransportError
    \/ ClientClose

RemoteSpec == SessionInit /\ [][RemoteNext]_vars

\* the number of requests the client has written
Sent(sess) == Len(sess.read) + Len(sess.inbox)

\* C19: when RemoteRepository.run_command returns Ok the cache is the account
\* list the server sent in reply to that command; when it returns an error the
\* cache is what it was before the call
C19_CacheFollowsReply ==
    [][(session.cpc = "wait_cmd" /\ session'.cpc = "idle") =>
        /\ session'.cresult = "Ok" =>
              /\ Len(session.read) = Sent(session)
              /\ session.read[Sent(session)].type = "Command"
              /\ Len(session.outbox) > Sent(session)
              /\ session'.cache = Reply_de(session.outbox[Sent(session) + 1])
        /\ session'.cresult # "Ok" => session'.cache = session.cache]_vars

\* a command failed after an earlier command had replaced the cache
C19_Witness ==
    /\ session.spc # "none"
    /\ session.cpc = "idle"
    /\ session.cresult # "Ok"
    /\ session.read # <<>>
    /\ session.read[Len(session.read)].type = "Command"
    /\ Len(session.outbox) > 1
    /\ session.cache # Reply_de(session.outbox[1])
    /\ session.cache # <<>>

\* the errors of the invariant engine
InvariantErrors == {"NegativeBalance", "DuplicateId", "NoSuchAccount"}

\* C27 as claimed: what a stream client's run_command returns for a command
\* the server's invariant engine has rejected is not what it returns when
\* the connection fails
C27_RejectionIsTold ==
    (/\ session.spc = "failed"
     /\ session.serr \in InvariantErrors
     /\ session.cpc = "idle"
     /\ ~session.broken
     /\ session.inbox = <<>>
     /\ session.cresult # "Ok")
        => session.cresult \notin TransportOutcomes

----------------------------------------------------------------------------
(* repository/remote.rs: mod http, request tasks sharing one
   Arc<Mutex<Repository>> that process 1 has opened *)

Tasks == {1, 2}

HttpIdle == [pc |-> "idle"]

HttpStart == http = [mutex |-> 0, req |-> [t \in Tasks |-> HttpIdle]]

\* who holds the MutexGuard once repo.run_command(command).await has returned
\* Ok: still the task, whose guard lives to the end of the handler
guard_dropped_early(t) == 0

guard_after_command(t) == t

\* a request arrives and its handler task starts: POST / with a command,
\* GET / or GET /transactions/:account
HttpRequest(t) ==
    /\ http.req[t].pc = "idle"
    /\ ncmds < MaxCmds
    /\ \E m \in SessionMessages \cup {[type |-> "Accounts"]} :
          http' = [http EXCEPT !.req[t] = [pc |-> "waiting", msg |-> m]]
    /\ ncmds' = ncmds + 1
    /\ UNCHANGED <<localVars, cmd, result, all_ok, sqlVars, pureVars, session, listener>>

\* repo.lock().await returns the guard
HttpLock(t) ==
    /\ http.req[t].pc \in {"waiting", "ran"}
    /\ http.mutex = 0
    /\ http' = [http EXCEPT !.mutex = t,
                            !.req[t].pc = IF @ = "waiting" THEN "locked" ELSE "ran"]
    /\ UNCHANGED <<localVars, callVars, sqlVars, pureVars, session, listener>>

\* http::run_command: repo.run_command(command).await?; an error becomes the
\* 500 response and the guard is dropped
HttpRunCommand(t) ==
    /\ http.req[t].pc = "locked"
    /\ http.req[t].msg.type = "Command"
    /\ \E r \in {run_command(St(1), http.req[t].msg.command)} :
          /\ accounts' = [accounts EXCEPT ![1] = r.st.accounts]
          /\ wt' = r.st.wt
          /\ index' = r.st.index
          /\ head' = r.st.head
          /\ http' = IF r.result = "Ok"
                     THEN [http EXCEPT !.mutex = guard_after_command(t),
                                       !.req[t] = [pc |-> "ran", msg |-> @.msg,
                                                   after |-> accounts_list(r.st.accounts)]]
                     ELSE [http EXCEPT !.mutex = 0,
                                       !.req[t] = [pc |-> "done", msg |-> @.msg,
                                                   status |-> 500]]
    /\ UNCHANGED <<path_exists, git_dir, lock, pc, callVars, sqlVars, pureVars, session, listener>>

\* Ok(Json(repo.accounts().await?)) of http::run_command and of
\* http::account_list; the guard is dropped when the handler returns
HttpAccounts(t) ==
    /\ http.mutex = t
    /\ \/ http.req[t].pc = "ran"
       \/ http.req[t].pc = "locked" /\ http.req[t].msg.type = "Accounts"
    /\ http' = [http EXCEPT !.mutex = 0,
                            !.req[t] = [pc |-> "done", msg |-> @.msg, status |-> 200,
                                        reply |-> accounts_list(accounts[1]),
                                        after |-> IF http.req[t].pc = "ran"
                                                  THEN @.after
                                                  ELSE accounts_list(accounts[1])]]
    /\ UNCHANGED <<localVars, callVars, sqlVars, pureVars, session, listener>>

\* http::transaction_list
HttpTransactions(t) ==
    /\ http.mutex = t
    /\ http.req[t].pc = "locked"
    /\ http.req[t].msg.type = "Transactions"
    /\ http' = [http EXCEPT
                  !.mutex = 0,
                  !.req[t] = IF transactions_ok(wt)
                             THEN [pc |-> "done", msg |-> @.msg, status |-> 200,
                                   reply |-> transactions(wt, @.msg.account)]
                             ELSE [pc |-> "done", msg |-> @.msg, status |-> 500]]
    /\ UNCHANGED <<localVars, callVars, sqlVars, pureVars, session, listener>>

\* the response has been written; the task ends
HttpRespond(t) ==
    /\ http.req[t].pc = "done"
    /\ http' = [http EXCEPT !.req[t] = HttpIdle]
    /\ UNCHANGED <<localVars, callVars, sqlVars, pureVars, session, listener>>

HttpInit ==
    /\ LocalFresh /\ CallInit /\ SqlNone /\ PureNone
    /\ session = [spc |-> "none"]
    /\ ListenerNone
    /\ HttpStart

HttpNext ==
    \E t \in Tasks :
        \/ HttpRequest(t)
        \/ HttpLock(t)
        \/ HttpRunCommand(t)
        \/ HttpAccounts(t)
        \/ HttpTransactions(t)
        \/ HttpRespond(t)

HttpSpec == HttpInit /\ [][HttpNext]_vars

\* C20: a task between taking the lock and finishing its handler holds the
\* mutex, so no two are there at once, and the account list a POST / returns
\* is the list as its own command left it
C20_ReplyIsOwnState ==
    /\ [](\A t \in Tasks : http.req[t].pc \in {"locked", "ran"} => http.mutex = t)
    /\ [][\A t \in Tasks :
            (http.req[t].pc = "ran" /\ http'.req[t].pc = "done") =>
                http'.req[t].reply = http.req[t].after]_vars

\* a POST / has its reply while the other task's command waits for the lock
C20_Witness ==
    \E t, u \in Tasks :
        /\ http.req[t].pc = "done"
        /\ http.req[t].msg.type = "Command"
        /\ http.req[t].status = 200
        /\ http.req[t].reply # accounts_list(Tree0.accounts)
        /\ http.req[u].pc = "waiting"
        /\ http.req[u].msg.type = "Command"

----------------------------------------------------------------------------
(* repository/remote.rs: serve_listener, the accept loop of the stream
   server, with two clients *)

Conns == {1, 2}

\* serve_listener at the top of its loop, no run_session in progress
ListenerStart ==
    /\ listener = [backlog |-> <<>>, client |-> [c \in Conns |-> "idle"]]
    /\ session = [spc |-> "accept", conn |-> 0, inbox |-> <<>>, read |-> <<>>,
                  outbox |-> <<>>, eof |-> TRUE, cpc |-> "init", cache |-> <<>>,
                  nrecv |-> 0, cresult |-> "Ok", broken |-> FALSE, serr |-> "Ok"]

\* TcpStream::connect of a client: the kernel completes the handshake and
\* queues the connection; the client then waits in connect_tcp for the list
ListenerConnect(c) ==
    /\ listener.client[c] = "idle"
    /\ listener' = [listener EXCEPT !.backlog = Append(@, c),
                                    !.client[c] = "connecting"]
    /\ UNCHANGED <<localVars, callVars, sqlVars, pureVars, session, http>>

\* listener.accept() and Connection::new; run_session(connection).await
\* starts. The loop is here only when the run_session before it returned Ok
ListenerAccept ==
    /\ session.spc \in {"accept", "done"}
    /\ listener.backlog # <<>>
    /\ listener' = [listener EXCEPT !.backlog = Tail(@)]
    /\ session' = [spc |-> "start", conn |-> Head(listener.backlog),
                   inbox |-> <<>>, read |-> <<>>, outbox |-> <<>>, eof |-> FALSE,
                   cpc |-> "init", cache |-> <<>>, nrecv |-> 0, cresult |-> "Ok",
                   broken |-> FALSE, serr |-> "Ok"]
    /\ UNCHANGED <<localVars, callVars, sqlVars, pureVars, http>>

\* the client's connect_tcp returns: with the first message of its session,
\* or with an error when the server has dropped the connection
ListenerGreet(c) ==
    /\ listener.client[c] = "connecting"
    /\ session.conn = c
    /\ CanReceive(session)
    /\ listener' = [listener EXCEPT
                      !.client[c] = IF client_receive(session).ok THEN "open"
                                    ELSE "refused"]
    /\ session' = [session EXCEPT !.nrecv = IF client_receive(session).took
                                            THEN @ + 1 ELSE @]
    /\ UNCHANGED <<localVars, callVars, sqlVars, pureVars, http>>

\* the requests the clients make: creating an account, which fails for an
\* id in use, and a query
ListenerMessages ==
    {m \in SessionMessages :
        \/ m.type = "Transactions" /\ m.account = 1
        \/ m.type = "Command" /\ m.command.op = "CreateAccount"}

\* the client of the running session writes a request
ListenerPeerSend ==
    /\ ~session.eof
    /\ session.spc \notin {"done", "failed"}
    /\ ncmds < MaxCmds
    /\ ncmds' = ncmds + 1
    /\ \E m \in ListenerMessages :
          session' = [session EXCEPT !.inbox = Append(@, Message_ser(m))]
    /\ UNCHANGED <<localVars, cmd, result, all_ok, sqlVars, pureVars, http, listener>>

ListenerInit ==
    /\ LocalClosed /\ CallInit /\ SqlNone /\ PureNone /\ HttpNone
    /\ ListenerStart

ListenerServer == ListenerAccept \/ SessionOpen \/ SessionReceive \/ SessionHandle

ListenerNext ==
    \/ ListenerServer
    \/ ListenerPeerSend
    \/ PeerClose
    \/ \E c \in Conns : ListenerConnect(c) \/ ListenerGreet(c)

\* the server and a client waiting for its list take the steps they can;
\* nothing obliges a client to send or to close its connection
ListenerSpec ==
    /\ ListenerInit
    /\ [][ListenerNext]_vars
    /\ WF_vars(ListenerServer)
    /\ \A c \in Conns : WF_vars(ListenerGreet(c))

\* C21 as claimed: a client that has connected gets its initial account
\* list (or the server has stopped on an error), whatever the client of
\* another open session does
C21_SecondClientServed ==
    \A c \in Conns :
        (listener.client[c] = "connecting") ~>
            (listener.client[c] # "connecting" \/ session.spc = "failed")

----------------------------------------------------------------------------
(* A stream client's run_command against the same command run on the
   server's backend directly *)

WireAccounts == {a \in NewAccounts : a.id = 1 \/ a.typ = "Physical"}

\* amounts of either sign, with and without a cents part
WireAmounts == {<<100, "EUR">>, <<150, "EUR">>, <<-50, "EUR">>, <<-100, "EUR">>}

WireTransactions ==
    {[id |-> i, notes |-> "", amount |-> am, inner |-> inn] :
        i \in {1, 2}, am \in WireAmounts,
        inn \in {[type |-> "Received", src |-> "Employer", dst |-> 2, dst_virt |-> 1],
                 [type |-> "Paid", src |-> 2, src_virt |-> 1, dst |-> "Landlord"]}}

WireCommands ==
    {[op |-> "CreateAccount", account |-> a] : a \in WireAccounts}
    \cup {[op |-> "AddTransaction", transaction |-> t] : t \in WireTransactions}

\* session.direct: what run_command of the server's Repository returns for the
\* command the client has last sent, and accounts() after it; live: the
\* server's run_session was waiting for a request
WireStart ==
    session = [spc |-> "start", inbox |-> <<>>, read |-> <<>>, outbox |-> <<>>,
               eof |-> FALSE, cpc |-> "init", cache |-> <<>>, nrecv |-> 0,
               cresult |-> "Ok", broken |-> FALSE, serr |-> "Ok",
               direct |-> [live |-> FALSE, result |-> "None", accounts |-> <<>>]]

\* RemoteRepository::run_command up to conn.send
WireSend ==
    /\ session.cpc = "idle"
    /\ Len(session.read) + Len(session.inbox) < MaxCmds
    /\ \E c \in WireCommands :
          /\ cmd' = c
          /\ \E d \in {run_command(St(1), c)} :
                session' = [session EXCEPT
                              !.inbox = Append(@, Message_ser([type |-> "Command",
                                                               command |-> c])),
                              !.cpc = "wait_cmd",
                              !.direct = [live |-> session.spc = "recv",
                                          result |-> d.result,
                                          accounts |-> accounts_list(d.st.accounts)]]
    /\ UNCHANGED <<localVars, result, ncmds, all_ok, sqlVars, pureVars, http, listener>>

WireInit ==
    /\ LocalClosed /\ CallInit /\ SqlNone /\ PureNone
    /\ WireStart /\ HttpNone /\ ListenerNone

WireNext ==
    \/ SessionOpen \/ SessionReceive \/ SessionHandle
    \/ ClientConnect \/ WireSend \/ ClientReceive \/ ClientTransportError
    \/ ClientClose

WireSpec == WireInit /\ [][WireNext]_vars

\* C22 as claimed: when a command sent on a session the server keeps open
\* comes back over an unbroken connection, the client's call returns Ok
\* exactly if the backend accepts the command, and then the client holds the
\* backend's account list
C22_RemoteMatchesDirect ==
    [][(/\ session.cpc = "wait_cmd"
        /\ session'.cpc = "idle"
        /\ ~session'.broken
        /\ session.direct.live) =>
           /\ session'.cresult = "Ok" <=> session.direct.result = "Ok"
           /\ session'.cresult = "Ok" => session'.cache = session.direct.accounts]_vars

----------------------------------------------------------------------------
(* The local and the relational store driven with the same commands from the
   same accounts *)

\* the local store as init leaves it; the relational store after the
\* CreateAccount of the same default account
PairInit ==
    /\ LocalFresh /\ CallInit /\ PureNone /\ NetNone
    /\ foreign_keys \in BOOLEAN
    /\ db = sql_run_command(EmptyDb, foreign_keys,
                            [op |-> "CreateAccount", account |-> DefaultAccount(1)]).db

PairSpec == PairInit /\ [][BothNext]_vars

\* the accounts each store reports, whatever the order of the two lists
LocalAccountSet == {accounts[1][id] : id \in DOMAIN accounts[1]}
SqlAccountSet == {sql_accounts(db).value[i] : i \in 1..Len(sql_accounts(db).value)}

\* C23 as claimed: the last command had the same outcome on both stores, and
\* both report the same accounts with the same balances
C23_StoresAgree ==
    /\ result[1] = "Ok" <=> result[2] = "Ok"
    /\ sql_accounts(db).ok
    /\ LocalAccountSet = SqlAccountSet

----------------------------------------------------------------------------
(* transactions(account) of both stores, with several transactions stored *)

LedgerAmounts == {<<100, "EUR">>, <<-50, "EUR">>}

\* identifiers in any order of arrival; an account in one slot or in both
LedgerTransactions ==
    {[id |-> i, notes |-> "", amount |-> am, inner |-> inn] :
        i \in {1, 2, 3}, am \in LedgerAmounts,
        inn \in {[type |-> "Received", src |-> "Employer", dst |-> 2, dst_virt |-> 1],
                 [type |-> "MoveVirt", src |-> 1, dst |-> 1]}}

LedgerCreateAccount ==
    \E a \in {a \in NewAccounts : a.id = 2 /\ a.typ = "Physical"} :
        BothRunCommand([op |-> "CreateAccount", account |-> a])

LedgerAddTransaction ==
    \E t \in LedgerTransactions :
        BothRunCommand([op |-> "AddTransaction", transaction |-> t])

\* transactions(a) is called on both stores; result holds what they return
LedgerQuery ==
    /\ pc[1] = "open"
    /\ \E a \in AccountIds :
          /\ cmd' = [op |-> "Transactions", account |-> a]
          /\ result' = [result EXCEPT
                          ![1] = IF transactions_ok(wt)
                                 THEN [ok |-> TRUE, value |-> transactions(wt, a)]
                                 ELSE [ok |-> FALSE, value |-> <<>>],
                          ![2] = sql_transactions(db, a)]
    /\ UNCHANGED <<localVars, ncmds, all_ok, sqlVars, pureVars, netVars>>

LedgerNext == LedgerCreateAccount \/ LedgerAddTransaction \/ LedgerQuery

LedgerSpec == PairInit /\ [][LedgerNext]_vars

Ascending(seq) == \A k \in 1..(Len(seq) - 1) : seq[k].id < seq[k + 1].id

\* the ids of the transaction files that name account a in a slot
FilesNaming(a) ==
    {i \in DOMAIN wt.transactions :
        \E k \in 1..2 : Transaction_accounts(wt.transactions[i])[k] = a}

\* C25 as claimed: transactions(a) of the local store returns the stored
\* transactions that name a, each once, in ascending order of their ids
C25_LocalTransactions ==
    cmd.op = "Transactions" =>
        /\ result[1].ok
        /\ Len(result[1].value) = Cardinality(FilesNaming(cmd.account))
        /\ \A k \in 1..Len(result[1].value) :
              /\ result[1].value[k].id \in FilesNaming(cmd.account)
              /\ Transaction_ser(result[1].value[k]) =
                     wt.transactions[result[1].value[k].id]
        /\ Ascending(result[1].value)

\* the rows of the transactions table that name account a in a slot
RowsNaming(a) ==
    {i \in 1..Len(db.transactions) :
        db.transactions[i].acc_1 = a \/ db.transactions[i].acc_2 = a}

\* C26 as claimed: the list transactions(a) of the relational store returns
\* holds the transactions that name a, in ascending order of their ids
C26_SqlTransactionsSorted ==
    (cmd.op = "Transactions" /\ result[2].ok) =>
        /\ Len(result[2].value) = Cardinality(RowsNaming(cmd.account))
        /\ \A k \in 1..Len(result[2].value) :
              \E i \in RowsNaming(cmd.account) :
                  TransactionDb(result[2].value[k]) = db.transactions[i]
        /\ Ascending(result[2].value)

----------------------------------------------------------------------------
(* types.rs: the text form of an Amount, printed and parsed back *)

\* minor-unit values: both signs, with and without cents, one-digit cents,
\* and the ends of the i32 range whose negation is an i32
MinorUnits ==
    {-2147483647, -1234, -1200, -150, -100, -99, -50, -5, -1,
     0, 1, 5, 50, 99, 100, 105, 150, 1200, 1234, 2147483647}

\* the texts "12.34 USD", "12.3 USD", "12.345 USD", "12. USD" and "12 USD"
AmountTexts ==
    {[whole |-> 12, frac |-> <<f>>, cur |-> "USD"] :
        f \in {<<"3", "4">>, <<"3">>, <<"3", "4", "5">>, <<>>}}
    \cup {[whole |-> 12, frac |-> <<>>, cur |-> "USD"]}

AmountInit ==
    /\ LocalNone /\ CallInit /\ SqlNone /\ NetNone
    /\ tx_in \in [kind : {"amount"}, value : MinorUnits \X Currencies]
                \cup [kind : {"text"}, value : AmountTexts]
    /\ tx_out = <<>>

\* Amount::to_string
CallToString ==
    /\ tx_in.kind = "amount"
    /\ tx_out = <<>>
    /\ tx_out' = <<Amount_fmt(tx_in.value)>>
    /\ UNCHANGED <<localVars, callVars, sqlVars, tx_in, netVars>>

\* str::parse::<Amount> of the text printed, or of the text given
CallFromStr ==
    /\ \/ tx_in.kind = "amount" /\ Len(tx_out) = 1
       \/ tx_in.kind = "text" /\ tx_out = <<>>
    /\ tx_out' = tx_out \o <<Amount_from_str(IF tx_in.kind = "amount"
                                              THEN tx_out[1] ELSE tx_in.value)>>
    /\ UNCHANGED <<localVars, callVars, sqlVars, tx_in, netVars>>

AmountNext == CallToString \/ CallFromStr

AmountSpec == AmountInit /\ [][AmountNext]_vars

\* the text of tx_in has been parsed / the amount tx_in has been printed and
\* its text parsed
ParsedText == tx_in.kind = "text" /\ Len(tx_out) = 1
ParsedBack == tx_in.kind = "amount" /\ Len(tx_out) = 2

\* C29: parsing the text an Amount prints yields that Amount, whatever its
\* sign and cents; "12.34 USD" parses to 1234 USD, and "12.3 USD", whose
\* fraction is not two digits, is rejected
C29_AmountRoundTrip ==
    /\ ParsedBack => tx_out[2] = [ok |-> TRUE, value |-> tx_in.value]
    /\ (ParsedText /\ tx_in.value.frac = << <<"3", "4">> >>)
          => tx_out[1] = [ok |-> TRUE, value |-> <<1234, "USD">>]
    /\ (ParsedText /\ tx_in.value.frac # <<>> /\ Len(tx_in.value.frac[1]) # 2)
          => ~tx_out[1].ok

----------------------------------------------------------------------------
(* types.rs: the text form of an Id<T>, printed and parsed back *)

\* the T of an Id<T>: a PhantomData marker, held here beside the value
Kinds == {"Transaction", "Account", "Account<Physical>", "Account<Virtual>"}

\* the 128 bits of a Ulid as eight 16-bit words, most significant first
Ulids ==
    {<<0, 0, 0, 0, 0, 0, 0, w>> : w \in {0, 1, 4660}}
    \cup {<<w, 0, 0, 0, 0, 0, 0, 0>> : w \in {1, 65535}}
    \cup {<<65535, 65535, 65535, 65535, 65535, 65535, 65535, 65535>>}

Consonants ==
    <<"b", "d", "f", "g", "h", "j", "k", "l", "m", "n", "p", "r", "s", "t", "v", "z">>
Vowels == <<"a", "i", "o", "u">>

\* a proquint: 16 bits as consonant (4 bits), vowel (2), consonant, vowel,
\* consonant
proquint_word(w) ==
    <<Consonants[((w \div 4096) % 16) + 1], Vowels[((w \div 1024) % 4) + 1],
      Consonants[((w \div 64) % 16) + 1], Vowels[((w \div 16) % 4) + 1],
      Consonants[(w % 16) + 1]>>

\* u128::proquint_encode: the proquints of the eight words, joined by '-';
\* the text is held as the sequence of its groups
proquint_encode(words) == [k \in 1..Len(words) |-> proquint_word(words[k])]

IndexIn(letters, c) == CHOOSE k \in 1..Len(letters) : letters[k] = c
IsIn(letters, c) == \E k \in 1..Len(letters) : letters[k] = c

proquint_ok(g) ==
    /\ Len(g) = 5
    /\ IsIn(Consonants, g[1]) /\ IsIn(Vowels, g[2]) /\ IsIn(Consonants, g[3])
    /\ IsIn(Vowels, g[4]) /\ IsIn(Consonants, g[5])

proquint_value(g) ==
    (IndexIn(Consonants, g[1]) - 1) * 4096 + (IndexIn(Vowels, g[2]) - 1) * 1024
    + (IndexIn(Consonants, g[3]) - 1) * 64 + (IndexIn(Vowels, g[4]) - 1) * 16
    + (IndexIn(Consonants, g[5]) - 1)

\* u128::parse_proquints; [ok, value]
parse_proquints(text) ==
    IF Len(text) = 8 /\ \A k \in 1..Len(text) : proquint_ok(text[k])
    THEN [ok |-> TRUE, value |-> [k \in 1..8 |-> proquint_value(text[k])]]
    ELSE [ok |-> FALSE, value |-> <<>>]

\* impl Display for Id<T>
Id_fmt(id) == proquint_encode(id.value)

\* impl FromStr for Id<T>, T being kind; [ok, value]
Id_from_str(kind, text) ==
    IF parse_proquints(text).ok
    THEN [ok |-> TRUE, value |-> [kind |-> kind, value |-> parse_proquints(text).value]]
    ELSE [ok |-> FALSE, value |-> [kind |-> kind, value |-> <<>>]]

\* texts that are not the text of an id: seven groups, and a group of digits
NotIds ==
    {[k \in 1..7 |-> proquint_word(0)],
     [k \in 1..8 |-> IF k = 1 THEN <<"1", "2", "3", "4", "5">> ELSE proquint_word(0)]}

IdInit ==
    /\ LocalNone /\ CallInit /\ SqlNone /\ NetNone
    /\ tx_in \in [kind : Kinds, value : Ulids] \cup [text : NotIds]
    /\ tx_out = <<>>

\* Id::<T>::to_string, also what Serialize writes
CallIdToString ==
    /\ "kind" \in DOMAIN tx_in
    /\ tx_out = <<>>
    /\ tx_out' = <<Id_fmt(tx_in)>>
    /\ UNCHANGED <<localVars, callVars, sqlVars, tx_in, netVars>>

\* str::parse::<Id<T>> with T = kind, also what Deserialize does, on the text
\* printed or the text given
CallIdFromStr(kind) ==
    /\ \/ "kind" \in DOMAIN tx_in /\ Len(tx_out) = 1
       \/ "text" \in DOMAIN tx_in /\ tx_out = <<>>
    /\ tx_out' = tx_out \o <<Id_from_str(kind, IF "kind" \in DOMAIN tx_in
                                                THEN tx_out[1] ELSE tx_in.text)>>
    /\ UNCHANGED <<localVars, callVars, sqlVars, tx_in, netVars>>

IdNext == CallIdToString \/ \E kind \in Kinds : CallIdFromStr(kind)

IdSpec == IdInit /\ [][IdNext]_vars

\* the id tx_in has been printed and its text decoded
DecodedBack == "kind" \in DOMAIN tx_in /\ Len(tx_out) = 2

\* C30: decoding the text of an identifier of one kind as an identifier of
\* another kind fails; it does not yield an identifier with the same 128 bits
C30_KindCheckedAtDecode ==
    (DecodedBack /\ tx_out[2].value.kind # tx_in.kind) => ~tx_out[2].ok

\* decoding as the kind the text was encoded from gives the identifier back,
\* and a text that is not eight proquints is rejected for every kind
IdRoundTrip ==
    /\ (DecodedBack /\ tx_out[2].value.kind = tx_in.kind)
          => tx_out[2] = [ok |-> TRUE, value |-> tx_in]
    /\ ("text" \in DOMAIN tx_in /\ Len(tx_out) = 1) => ~tx_out[1].ok

----------------------------------------------------------------------------
(* StaleSpec: two processes open, use and close one store; either can die *)
(* inside a command, be started again, and the lock file of a dead process *)
(* can be removed by hand                                                   *)

\* the process dies inside a CreateAccount command
StaleCrash(p) ==
    \E a \in NewAccounts : CrashInCommand(p, [op |-> "CreateAccount", account |-> a])

StaleNext ==
    \/ RemoveStaleLock
    \/ \E p \in Procs :
          \/ OpenCheck(p)
          \/ OpenAcquire(p)
          \/ Close(p)
          \/ CreateAccount(p)
          \/ StaleCrash(p)
          \/ Restart(p)

StaleSpec == Init /\ [][StaleNext]_vars

\* the lock file exists and no live handle owns it
Stale == lock # 0 /\ (lock \in Procs => pc[lock] # "open")

\* C32: the death of the process that holds the store leaves the lock file as
\* it is; while a lock file without a live owner exists no open, by any
\* process, succeeds, and the open that reaches the lock fails with the
\* already-locked error; such a file changes only by being removed by hand,
\* and a lock file is otherwise removed only by the close of its creator
C32_StaleLockStays ==
    [][/\ \A p \in Procs :
            (pc[p] = "open" /\ pc'[p] = "crashed" /\ result'[p] = "Crashed")
              => (lock = p /\ lock' = p)
       /\ Stale =>
            /\ \A p \in Procs : pc'[p] = "open" => pc[p] = "open"
            /\ \A p \in Procs :
                 (cmd' = Call("Open", p) /\ pc[p] = "open_checked")
                   => (pc'[p] = "none" /\ result'[p] = "Locked")
            /\ lock' # lock => (lock' = 0 /\ cmd'.op = "RemoveLock")
       /\ (lock # 0 /\ lock' # lock)
            => (cmd'.op = "RemoveLock" \/ cmd' = Call("Close", lock))]_vars

\* a process's open has failed on the lock file that another process, dead
\* since, left behind
C32_Witness ==
    \E p, q \in Procs :
        /\ p # q
        /\ lock = p
        /\ pc[p] = "crashed"
        /\ cmd = Call("Open", q)
        /\ result[q] = "Locked"
        /\ pc[q] = "none"

----------------------------------------------------------------------------
(* The two axes of the local store under Spec *)

\* the minor units an account holds in currency c
Held(account, c) == IF c \in DOMAIN account.current THEN account.current[c][1] ELSE 0

RECURSIVE AxisSum(_, _, _, _)
\* the sum over the accounts of mem with the ids S and the type typ
AxisSum(mem, S, typ, c) ==
    IF S = {} THEN 0
    ELSE LET id == CHOOSE x \in S : TRUE
         IN (IF mem[id].typ = typ THEN Held(mem[id], c) ELSE 0)
            + AxisSum(mem, S \ {id}, typ, c)

TwoAxis(mem) ==
    \A c \in Currencies :
        AxisSum(mem, DOMAIN mem, "Physical", c) = AxisSum(mem, DOMAIN mem, "Virtual", c)

\* every slot of t names an account of mem of the slot's type
WellTyped(mem, t) ==
    \A k \in 1..2 :
        /\ SlotTypes(t)[k][1] \in DOMAIN mem
        /\ mem[SlotTypes(t)[k][1]].typ = SlotTypes(t)[k][2]

\* C33: accounts with empty balances hold the same sum on both axes, and an
\* accepted transaction whose Physical slots name Physical accounts and whose
\* Virtual slots name Virtual accounts keeps, for every currency, the sum over
\* the Physical accounts equal to the sum over the Virtual accounts
C33_TwoAxisBalance ==
    /\ \A a \in NewAccounts \cup {DefaultAccount(1)} :
          TwoAxis(a.id :> a) /\ TwoAxis((a.id :> a) @@ (1 :> DefaultAccount(1)))
    /\ [][(/\ IsCall /\ cmd'.op = "AddTransaction" /\ result'[1] = "Ok"
           /\ WellTyped(accounts[1], cmd'.transaction)
           /\ TwoAxis(accounts[1]))
            => TwoAxis(accounts'[1])]_vars

\* a well-typed Convert was accepted on a store whose two axes were and are
\* equal: the Physical accounts hold money in the new currency
C33_Witness ==
    /\ cmd.op = "AddTransaction"
    /\ cmd.transaction.inner.type = "Convert"
    /\ result[1] = "Ok"
    /\ all_ok
    /\ WellTyped(accounts[1], cmd.transaction)
    /\ TwoAxis(accounts[1])
    /\ AxisSum(accounts[1], DOMAIN accounts[1], "Physical", "USD") > 0

----------------------------------------------------------------------------
(* CacheSpec: the local store driven by one process, CreateAccount commands *)
(* carrying a balance included                                               *)

\* accounts handed to CreateAccount with a balance in them: Command holds a
\* whole Account, and create_account stores its current as given
SeededAmounts == {<<100, "EUR">>, <<-100, "EUR">>, <<-50, "EUR">>}

SeededAccounts ==
    {[id |-> i, name |-> "S", notes |-> "", typ |-> "Physical",
      current |-> add_assign(NoAmounts, am), enabled |-> TRUE] :
        i \in {1, 2}, am \in SeededAmounts}

CacheCreateAccount ==
    \E a \in SeededAccounts : RunCommand(1, [op |-> "CreateAccount", account |-> a])

CacheNext ==
    \/ CacheCreateAccount
    \/ CreateAccount(1)
    \/ UpdateAccount(1)
    \/ AddTransaction(1)

CacheSpec == Init /\ [][CacheNext]_vars

\* C34: after every run_command call, accepted or rejected, the account files
\* in the working tree can be loaded as an open loads them, and what is loaded
\* is the in-memory index: the same ids, and under each id the same name,
\* notes, type, balance and enabled flag
C34_CacheIsDisk ==
    /\ load_accounts(wt).ok
    /\ load_accounts(wt).value = accounts[1]

----------------------------------------------------------------------------
(* UpdateAccount lists that change nothing, under PairSpec *)

\* C35: UpdateAccount of an account that exists returns Ok for every list of
\* modifications, the lists that change nothing included, on the local store
\* (result[1]) and on the relational store (result[2])
C35_UpdateAlwaysSucceeds ==
    [][(IsCall /\ cmd'.op = "UpdateAccount") =>
        /\ cmd'.id \in DOMAIN accounts[1] => result'[1] = "Ok"
        /\ HasId(db.accounts, cmd'.id) => result'[2] = "Ok"]_vars

----------------------------------------------------------------------------
(* The listener after a rejected command, under ListenerSpec *)

\* C36: after a session has ended on a command the store rejected, a client
\* that is connecting is accepted and receives its initial account list
C36_ServerSurvivesRejection ==
    \A c \in Conns :
        (/\ listener.client[c] = "connecting"
         /\ session.spc = "failed"
         /\ session.serr \in InvariantErrors)
            ~> (listener.client[c] = "open")

----------------------------------------------------------------------------
(* Disabled accounts, under Spec *)

\* C37: no run_command call, accepted or rejected, removes an account from
\* the in-memory index that accounts() returns, and none sets the enabled
\* flag of a disabled account
C37_DisabledStaysDisabled ==
    [][\A id \in DOMAIN accounts[1] :
          /\ id \in DOMAIN accounts'[1]
          /\ ~accounts[1][id].enabled => ~accounts'[1][id].enabled]_vars

----------------------------------------------------------------------------
(* main.rs: Export and Import.  A store is filled by one process and closed; *)
(* Export opens it and prints the command list, Import replays the list into *)
(* another, freshly initialised store                                        *)

\* accounts.into_iter().map(...CreateAccount): accounts() in identifier
\* order, each with its balance emptied
export_accounts(mem) ==
    LET ids == SortedIds(DOMAIN mem)
    IN [i \in 1..Len(ids) |->
           [op |-> "CreateAccount", account |-> [mem[ids[i]] EXCEPT !.current = NoAmounts]]]

\* BTreeMap::extend with the (id, AddTransaction) pairs of a list
extend(map, seq) ==
    [id \in DOMAIN map \cup {seq[k].id : k \in 1..Len(seq)} |->
        IF \E k \in 1..Len(seq) : seq[k].id = id
        THEN [op |-> "AddTransaction",
              transaction |-> seq[CHOOSE k \in 1..Len(seq) : seq[k].id = id]]
        ELSE map[id]]

RECURSIVE export_transactions(_, _, _)
\* the loop over the accounts that fills the map with transactions(account.id)
export_transactions(tree, accs, map) ==
    IF accs = <<>> THEN map
    ELSE export_transactions(tree, Tail(accs),
                             extend(map, transactions(tree, Head(accs).account.id)))

\* BTreeMap::into_values: the values in key order
into_values(map) ==
    LET ids == SortedIds(DOMAIN map) IN [i \in 1..Len(ids) |-> map[ids[i]]]

\* the Export arm on an unlocked store: open, accounts(), transactions() of
\* every account, serde_json::to_string of the list; [result, value]
Export(gd, st, lockfile) ==
    IF open_checks(gd, st) # "Ok" THEN [result |-> open_checks(gd, st), value |-> <<>>]
    ELSE IF ~acquire(lockfile, 2).ok THEN [result |-> "AlreadyLocked", value |-> <<>>]
    ELSE IF ~load_accounts(st.wt).ok \/ ~transactions_ok(st.wt)
    THEN [result |-> "InvalidEncoding", value |-> <<>>]
    ELSE LET accs == export_accounts(accounts_list(load_accounts(st.wt).value))
             all == accs \o into_values(export_transactions(st.wt, accs, <<>>))
         IN [result |-> "Ok", value |-> [i \in 1..Len(all) |-> Command_ser(all[i])]]

RECURSIVE import_commands(_, _)
\* for command in ... { repo.run_command(command)? }
import_commands(st, cmds) ==
    IF cmds = <<>> THEN [st |-> st, result |-> "Ok"]
    ELSE LET r == run_command(st, Head(cmds))
         IN IF r.result # "Ok" THEN r ELSE import_commands(r.st, Tail(cmds))

\* the store LocalRepository::init has made for the import, its default
\* account under an id of its own, as open loads it
ImportStore ==
    LET tree == [scaffold |-> TRUE,
                 accounts |-> (0 :> Account_ser(DefaultAccount(0))),
                 transactions |-> <<>>]
    IN [accounts |-> load_accounts(tree).value, wt |-> tree, index |-> tree,
        head |-> [born |-> TRUE, tree |-> tree]]

\* the Import arm: serde_json::from_reader of the whole list, then the loop
Import(st, text) ==
    IF \E i \in 1..Len(text) : ~Command_de_ok(text[i])
    THEN [st |-> st, result |-> "InvalidEncoding"]
    ELSE import_commands(st, [i \in 1..Len(text) |-> Command_de(text[i])])

ExportAmounts == {<<100, "EUR">>, <<50, "EUR">>}

\* transactions between the Physical account 2 and the default account 1,
\* their identifiers in any order of arrival
ExportTransactions ==
    {[id |-> i, notes |-> "", amount |-> am, inner |-> inn] :
        i \in {1, 2}, am \in ExportAmounts,
        inn \in {[type |-> "Received", src |-> "Employer", dst |-> 2, dst_virt |-> 1],
                 [type |-> "Paid", src |-> 2, src_virt |-> 1, dst |-> "Landlord"]}}

ExportCreateAccount ==
    \E a \in {a \in NewAccounts : a.id = 2 /\ a.typ = "Physical"} :
        RunCommand(1, [op |-> "CreateAccount", account |-> a])

ExportUpdateAccount ==
    \E id \in {1, 2} :
        RunCommand(1, [op |-> "UpdateAccount", id |-> id,
                       changes |-> <<[kind |-> "UpdateName", name |-> "B"],
                                     [kind |-> "Disable"]>>])

ExportAddTransaction ==
    \E t \in ExportTransactions : RunCommand(1, [op |-> "AddTransaction", transaction |-> t])

\* `monfari export` on the closed store, its output piped to `monfari import`
\* on the other store; tx_out holds what each returned
ExportImport ==
    /\ pc[1] = "none"
    /\ tx_out = <<>>
    /\ LET e == Export(path_exists /\ git_dir, St(1), lock)
       IN tx_out' = IF e.result # "Ok" THEN <<e>>
                    ELSE <<e, Import(ImportStore, e.value)>>
    /\ UNCHANGED <<localVars, callVars, sqlVars, tx_in, netVars>>

ExportNext ==
    \/ ExportCreateAccount
    \/ ExportUpdateAccount
    \/ ExportAddTransaction
    \/ Close(1)
    \/ ExportImport

ExportSpec == Init /\ [][ExportNext]_vars

\* the accounts of the exporting store, as its open loaded them
Exported == load_accounts(wt).value

\* C38: the list Export prints holds, first, one CreateAccount with an empty
\* balance for every account, then one AddTransaction for every stored
\* transaction, in ascending identifier order; after Import has replayed the
\* list into a store that held none of these accounts, that store holds every
\* exported account with the same name, notes, type and enabled flag and the
\* same amount of every currency
C38_ExportImportRoundTrip ==
    (Len(tx_out) = 2) =>
        LET cmds == [i \in 1..Len(tx_out[1].value) |-> Command_de(tx_out[1].value[i])]
            n == Cardinality(DOMAIN Exported)
            got == tx_out[2].st.accounts
        IN /\ Len(cmds) = n + Cardinality(DOMAIN wt.transactions)
           /\ \A i \in 1..n :
                 /\ cmds[i].op = "CreateAccount"
                 /\ cmds[i].account.current = NoAmounts
           /\ {cmds[i].account.id : i \in 1..n} = DOMAIN Exported
           /\ \A i \in (n + 1)..Len(cmds) :
                 /\ cmds[i].op = "AddTransaction"
                 /\ cmds[i].transaction = Transaction_de(wt.transactions[cmds[i].transaction.id])
                 /\ i < Len(cmds) => cmds[i].transaction.id < cmds[i + 1].transaction.id
           /\ \A id \in DOMAIN Exported :
                 /\ id \in DOMAIN got
                 /\ got[id].name = Exported[id].name
                 /\ got[id].notes = Exported[id].notes
                 /\ got[id].typ = Exported[id].typ
                 /\ got[id].enabled = Exported[id].enabled
                 /\ \A c \in Currencies : Held(got[id], c) = Held(Exported[id], c)

====
